---- MODULE Spec2Model ----
(***************************************************************************)
(* A model of ionMath: the generic vectors Vec2/Vec3/Vec4, the matrices    *)
(* Mat3/Mat4 and the numeric utilities clamp / lerp / min / max.           *)
(*                                                                         *)
(* The library is a set of pure functions over value types.  The state     *)
(* machine is a client that, from an idle state, calls one operation of    *)
(* the library on inputs drawn from bounded sets, and records the call     *)
(* (op, args) and its outcome (out): a returned value, or a panic.         *)
(*                                                                         *)
(* Scalars.  The code is generic over T: Copy + Num + NumCast.  Three      *)
(* instantiations are modelled: a signed and an unsigned integer type of   *)
(* IntBits bits, and f32.  An f32 value is held in fixed point, as a       *)
(* number of units of 1/TDen (TDen a power of two); the f32 inputs are     *)
(* whole numbers and the percentages are multiples of 1/TDen, so every     *)
(* f32 operation the model performs is exact in IEEE-754 arithmetic too;   *)
(* only normalize is also given the smallest fractions, whose squares      *)
(* round to zero as an f32 underflow does, and rounds toward zero.         *)
(* The build profile (debug) decides debug_assert! and overflow checks.    *)
(***************************************************************************)
EXTENDS Integers, Sequences, FiniteSets, TLC

VARIABLES debug, pc, op, args, out

vars == <<debug, pc, op, args, out>>

(***************************************************************************)
(* Bounds of the model.                                                    *)
(***************************************************************************)
MaxVal == 3
IntBits == 16
TBits == 2
MaxIndex == 5

\* The longest sequence of writes a client applies to its copy.
MaxWrites == 3

TDen == 2 ^ TBits

(***************************************************************************)
(* Outcomes of a call: a value, or a panic (unwrap of None, a failed       *)
(* debug_assert!, an arithmetic overflow in a debug build, unreachable!).  *)
(***************************************************************************)
Ok(v) == [panic |-> FALSE, val |-> v]

Panic == [panic |-> TRUE, val |-> 0]

(***************************************************************************)
(* Scalar types and their primitive arithmetic.                            *)
(***************************************************************************)
Types == {"signed", "unsigned", "f32"}

IntTypes == {"signed", "unsigned"}

IntMin(ty) == IF ty = "signed" THEN -(2 ^ (IntBits - 1)) ELSE 0

IntMax(ty) == IF ty = "signed" THEN 2 ^ (IntBits - 1) - 1 ELSE 2 ^ IntBits - 1

InRange(ty, x) == ty = "f32" \/ (IntMin(ty) <= x /\ x <= IntMax(ty))

Wrap(ty, x) == IntMin(ty) + ((x - IntMin(ty)) % (2 ^ IntBits))

\* The result of a primitive +, - or * whose mathematical value is raw: an
\* integer overflow panics in a debug build and wraps in a release build.
Arith(ty, raw, dbg) ==
    IF InRange(ty, raw) THEN Ok(raw)
    ELSE IF dbg THEN Panic ELSE Ok(Wrap(ty, raw))

T_add(ty, a, b, dbg) == Arith(ty, a + b, dbg)

T_sub(ty, a, b, dbg) == Arith(ty, a - b, dbg)

\* f32 * f32 in fixed point (exact when one factor is a whole number).
F32_mul(a, b) == (a * b) \div TDen

T_mul(ty, a, b, dbg) ==
    IF ty = "f32" THEN Ok(F32_mul(a, b)) ELSE Arith(ty, a * b, dbg)

TruncDiv(a, b) == IF a >= 0 THEN a \div b ELSE -((-a) \div b)

\* Cast with a value outside the target type wrapped into it.
Cast_wrapping(to, from, x) ==
    LET q == IF from = "f32" THEN x ELSE x * TDen
        tr == TruncDiv(q, TDen)
    IN  IF to = "f32" THEN Ok(q) ELSE Ok(Wrap(to, tr))

\* T::from (x).unwrap () for x of type from: an integer becomes the same f32,
\* an f32 is truncated toward zero, and a value outside T's range is None,
\* whose unwrap panics.
Cast(to, from, x) ==
    LET q == IF from = "f32" THEN x ELSE x * TDen
        tr == TruncDiv(q, TDen)
    IN  IF to = "f32" THEN Ok(q)
        ELSE IF InRange(to, tr) THEN Ok(tr) ELSE Panic

\* The value of a T literal n (T::zero (), 0, 1).
Lit(ty, n) == IF ty = "f32" THEN n * TDen ELSE n

(***************************************************************************)
(* Input values.                                                           *)
(***************************************************************************)
ValCount(ty) == IF ty = "unsigned" THEN MaxVal + 1 ELSE 2 * MaxVal + 1

\* The k-th sample value of a type (k is taken modulo the number of samples).
ValAt(ty, k) ==
    LET i == k % ValCount(ty)
        n == IF ty = "unsigned" THEN i ELSE i - MaxVal
    IN  Lit(ty, n)

Vals(ty) == {ValAt(ty, k) : k \in 0 .. ValCount(ty) - 1}

\* The sample values and the values 5, 10, 15 (and -5 where T has it).
ClampVals(ty) ==
    Vals(ty) \cup {Lit(ty, 5), Lit(ty, 10), Lit(ty, 15)}
        \cup (IF ty = "unsigned" THEN {} ELSE {Lit(ty, -5)})

\* Percentages -1, ..., 2 in steps of 1/TDen, as f32 values.
Percentages == (-TDen) .. (2 * TDen)

(***************************************************************************)
(* util: clamp and lerp, the free functions and the scalar traits.         *)
(***************************************************************************)
\* util::clamp with the upper limit never applied.
util_clamp_no_max(value, min, max, dbg) ==
    IF dbg /\ ~(min < max) THEN Panic
    ELSE Ok(IF value < min THEN min ELSE value)

\* util::clamp with an assertion that accepts min = max.
util_clamp_closed(value, min, max, dbg) ==
    IF dbg /\ ~(min <= max) THEN Panic
    ELSE Ok(IF value < min THEN min ELSE IF value > max THEN max ELSE value)

\* util::clamp
util_clamp(value, min, max, dbg) ==
    IF dbg /\ ~(min < max) THEN Panic
    ELSE Ok(IF value < min THEN min ELSE IF value > max THEN max ELSE value)

\* Clamp::clamp for a scalar
Clamp_clamp(self, min, max, dbg) ==
    IF dbg /\ ~(min < max) THEN Panic
    ELSE Ok(IF self < min THEN min ELSE IF self > max THEN max ELSE self)

\* start + (end - start), in T
T_start_plus_delta(ty, start, end, dbg) ==
    LET d == T_sub(ty, end, start, dbg)
    IN  IF d.panic THEN Panic ELSE T_add(ty, start, d.val, dbg)

\* util::lerp
util_lerp(ty, start, end, percentage, dbg) ==
    LET s == T_start_plus_delta(ty, start, end, dbg)
        c == util_clamp(percentage, Lit("f32", 0), Lit("f32", 1), dbg)
    IN  IF s.panic \/ c.panic THEN Panic
        ELSE Cast(ty, "f32", F32_mul(Cast("f32", ty, s.val).val, c.val))

\* Lerp::lerp_unclamped for a scalar
Lerp_lerp_unclamped(ty, start, end, percentage, dbg) ==
    LET s == T_start_plus_delta(ty, start, end, dbg)
    IN  IF s.panic THEN Panic
        ELSE Cast(ty, "f32", F32_mul(Cast("f32", ty, s.val).val, percentage))

\* Lerp::lerp for a scalar
Lerp_lerp(ty, start, end, percentage, dbg) ==
    LET s == T_start_plus_delta(ty, start, end, dbg)
        c == Clamp_clamp(percentage, Lit("f32", 0), Lit("f32", 1), dbg)
    IN  IF s.panic \/ c.panic THEN Panic
        ELSE Cast(ty, "f32", F32_mul(Cast("f32", ty, s.val).val, c.val))

(***************************************************************************)
(* Vectors.                                                                *)
(***************************************************************************)
\* Vec2::new, Vec3::new, Vec4::new: the arguments (the outcomes of the
\* argument expressions, of type cty) are cast to T and unwrapped.
Vec2_new(ty, cty, ox, oy) ==
    IF ox.panic \/ oy.panic THEN Panic
    ELSE LET cx == Cast(ty, cty, ox.val)
             cy == Cast(ty, cty, oy.val)
         IN  IF cx.panic \/ cy.panic THEN Panic
             ELSE Ok([x |-> cx.val, y |-> cy.val])

Vec3_new(ty, cty, ox, oy, oz) ==
    IF ox.panic \/ oy.panic \/ oz.panic THEN Panic
    ELSE LET cx == Cast(ty, cty, ox.val)
             cy == Cast(ty, cty, oy.val)
             cz == Cast(ty, cty, oz.val)
         IN  IF cx.panic \/ cy.panic \/ cz.panic THEN Panic
             ELSE Ok([x |-> cx.val, y |-> cy.val, z |-> cz.val])

Vec4_new(ty, cty, ox, oy, oz, ow) ==
    IF ox.panic \/ oy.panic \/ oz.panic \/ ow.panic THEN Panic
    ELSE LET cx == Cast(ty, cty, ox.val)
             cy == Cast(ty, cty, oy.val)
             cz == Cast(ty, cty, oz.val)
             cw == Cast(ty, cty, ow.val)
         IN  IF cx.panic \/ cy.panic \/ cz.panic \/ cw.panic THEN Panic
             ELSE Ok([x |-> cx.val, y |-> cy.val, z |-> cz.val, w |-> cw.val])

Vec2_index(self, index) ==
    CASE index = 0 -> Ok(self.x)
      [] index = 1 -> Ok(self.y)
      [] OTHER -> Panic

\* Index for Vec3 with the components in the order z, y, x.
Vec3_index_reversed(self, index) ==
    CASE index = 0 -> Ok(self.z)
      [] index = 1 -> Ok(self.y)
      [] index = 2 -> Ok(self.x)
      [] OTHER -> Panic

Vec3_index(self, index) ==
    CASE index = 0 -> Ok(self.x)
      [] index = 1 -> Ok(self.y)
      [] index = 2 -> Ok(self.z)
      [] OTHER -> Panic

Vec4_index(self, index) ==
    CASE index = 0 -> Ok(self.x)
      [] index = 1 -> Ok(self.y)
      [] index = 2 -> Ok(self.z)
      [] index = 3 -> Ok(self.w)
      [] OTHER -> Panic

\* *index_mut (index) = value: self after the assignment
Vec2_index_mut(self, index, value) ==
    CASE index = 0 -> Ok([self EXCEPT !.x = value])
      [] index = 1 -> Ok([self EXCEPT !.y = value])
      [] OTHER -> Panic

Vec3_index_mut(self, index, value) ==
    CASE index = 0 -> Ok([self EXCEPT !.x = value])
      [] index = 1 -> Ok([self EXCEPT !.y = value])
      [] index = 2 -> Ok([self EXCEPT !.z = value])
      [] OTHER -> Panic

Vec4_index_mut(self, index, value) ==
    CASE index = 0 -> Ok([self EXCEPT !.x = value])
      [] index = 1 -> Ok([self EXCEPT !.y = value])
      [] index = 2 -> Ok([self EXCEPT !.z = value])
      [] index = 3 -> Ok([self EXCEPT !.w = value])
      [] OTHER -> Panic

\* From<&Vec2<U>> for Vec2<V>, From<&Vec4<U>> for Vec4<V>
Vec2_from_Vec2(ty, uty, value) ==
    Vec2_new(ty, ty, Cast(ty, uty, value.x), Cast(ty, uty, value.y))

Vec4_from_Vec4(ty, uty, value) ==
    Vec4_new(ty, ty, Cast(ty, uty, value.x), Cast(ty, uty, value.y),
             Cast(ty, uty, value.z), Cast(ty, uty, value.w))

\* self + rhs, self - rhs for two vectors; self * rhs for a scalar rhs
Vec2_add(ty, self, rhs, dbg) ==
    Vec2_new(ty, ty, T_add(ty, self.x, rhs.x, dbg), T_add(ty, self.y, rhs.y, dbg))

Vec2_sub(ty, self, rhs, dbg) ==
    Vec2_new(ty, ty, T_sub(ty, self.x, rhs.x, dbg), T_sub(ty, self.y, rhs.y, dbg))

Vec2_mul_scalar(ty, self, rhs, dbg) ==
    Vec2_new(ty, ty, T_mul(ty, self.x, rhs, dbg), T_mul(ty, self.y, rhs, dbg))

Vec4_add(ty, self, rhs, dbg) ==
    Vec4_new(ty, ty, T_add(ty, self.x, rhs.x, dbg), T_add(ty, self.y, rhs.y, dbg),
             T_add(ty, self.z, rhs.z, dbg), T_add(ty, self.w, rhs.w, dbg))

Vec4_sub(ty, self, rhs, dbg) ==
    Vec4_new(ty, ty, T_sub(ty, self.x, rhs.x, dbg), T_sub(ty, self.y, rhs.y, dbg),
             T_sub(ty, self.z, rhs.z, dbg), T_sub(ty, self.w, rhs.w, dbg))

Vec4_mul_scalar(ty, self, rhs, dbg) ==
    Vec4_new(ty, ty, T_mul(ty, self.x, rhs, dbg), T_mul(ty, self.y, rhs, dbg),
             T_mul(ty, self.z, rhs, dbg), T_mul(ty, self.w, rhs, dbg))

\* Vec2f::from (&(start + (end - start))) * percentage, converted into Vec2<V>
Vec2_lerp_by(ty, start, end, percentage, dbg) ==
    LET d == Vec2_sub(ty, end, start, dbg)
        s == Vec2_add(ty, start, d.val, dbg)
        p == Vec2_mul_scalar("f32", Vec2_from_Vec2("f32", ty, s.val).val,
                             percentage, dbg)
    IN  IF d.panic THEN Panic
        ELSE IF s.panic THEN Panic
        ELSE Vec2_from_Vec2(ty, "f32", p.val)

\* Lerp::lerp for Vec2
Vec2_lerp(ty, start, end, percentage, dbg) ==
    LET c == Clamp_clamp(percentage, Lit("f32", 0), Lit("f32", 1), dbg)
    IN  IF c.panic THEN Panic ELSE Vec2_lerp_by(ty, start, end, c.val, dbg)

\* Lerp::lerp_unclamped for Vec2
Vec2_lerp_unclamped(ty, start, end, percentage, dbg) ==
    Vec2_lerp_by(ty, start, end, percentage, dbg)

\* Vec3 lerp with the y component interpolated between the x components.
Vec3_lerp_y_from_x(ty, start, end, percentage, dbg) ==
    Vec3_new(ty, ty, util_lerp(ty, start.x, end.x, percentage, dbg),
             util_lerp(ty, start.x, end.x, percentage, dbg),
             util_lerp(ty, start.z, end.z, percentage, dbg))

\* VecTrait::lerp for Vec3
Vec3_lerp(ty, start, end, percentage, dbg) ==
    Vec3_new(ty, ty, util_lerp(ty, start.x, end.x, percentage, dbg),
             util_lerp(ty, start.y, end.y, percentage, dbg),
             util_lerp(ty, start.z, end.z, percentage, dbg))

\* Vec4f::from (&(start + (end - start))) * percentage, converted into Vec4<V>
Vec4_lerp_by(ty, start, end, percentage, dbg) ==
    LET d == Vec4_sub(ty, end, start, dbg)
        s == Vec4_add(ty, start, d.val, dbg)
        p == Vec4_mul_scalar("f32", Vec4_from_Vec4("f32", ty, s.val).val,
                             percentage, dbg)
    IN  IF d.panic THEN Panic
        ELSE IF s.panic THEN Panic
        ELSE Vec4_from_Vec4(ty, "f32", p.val)

\* Lerp::lerp for Vec4 without the clamp of the percentage.
Vec4_lerp_no_clamp(ty, start, end, percentage, dbg) ==
    Vec4_lerp_by(ty, start, end, percentage, dbg)

\* Lerp::lerp for Vec4
Vec4_lerp(ty, start, end, percentage, dbg) ==
    LET c == Clamp_clamp(percentage, Lit("f32", 0), Lit("f32", 1), dbg)
    IN  IF c.panic THEN Panic ELSE Vec4_lerp_by(ty, start, end, c.val, dbg)

\* Lerp::lerp_unclamped for Vec4: the percentage is clamped here too.
Vec4_lerp_unclamped(ty, start, end, percentage, dbg) ==
    LET c == Clamp_clamp(percentage, Lit("f32", 0), Lit("f32", 1), dbg)
    IN  IF c.panic THEN Panic ELSE Vec4_lerp_by(ty, start, end, c.val, dbg)

\* Clamp::clamp for Vec2
Vec2_clamp(ty, self, min, max, dbg) ==
    IF dbg /\ ~(min.x < max.x) THEN Panic
    ELSE IF dbg /\ ~(min.y < max.y) THEN Panic
    ELSE Vec2_new(ty, ty,
        Ok(IF self.x < min.x THEN min.x ELSE IF self.x > max.x THEN max.x ELSE self.x),
        Ok(IF self.y < min.y THEN min.y ELSE IF self.y > max.y THEN max.y ELSE self.y))

\* VecTrait::clamp for Vec3
Vec3_clamp(ty, self, min, max, dbg) ==
    Vec3_new(ty, ty, util_clamp(self.x, min.x, max.x, dbg),
             util_clamp(self.y, min.y, max.y, dbg),
             util_clamp(self.z, min.z, max.z, dbg))

\* Clamp::clamp for Vec4 with the assertion on the last component left out.
Vec4_clamp_no_w_assert(ty, self, min, max, dbg) ==
    IF dbg /\ ~(min.x < max.x) THEN Panic
    ELSE IF dbg /\ ~(min.y < max.y) THEN Panic
    ELSE IF dbg /\ ~(min.z < max.z) THEN Panic
    ELSE Vec4_new(ty, ty,
        Ok(IF self.x < min.x THEN min.x ELSE IF self.x > max.x THEN max.x ELSE self.x),
        Ok(IF self.y < min.y THEN min.y ELSE IF self.y > max.y THEN max.y ELSE self.y),
        Ok(IF self.z < min.z THEN min.z ELSE IF self.z > max.z THEN max.z ELSE self.z),
        Ok(IF self.w < min.w THEN min.w ELSE IF self.w > max.w THEN max.w ELSE self.w))

\* Clamp::clamp for Vec4
Vec4_clamp(ty, self, min, max, dbg) ==
    IF dbg /\ ~(min.x < max.x) THEN Panic
    ELSE IF dbg /\ ~(min.y < max.y) THEN Panic
    ELSE IF dbg /\ ~(min.z < max.z) THEN Panic
    ELSE IF dbg /\ ~(min.w < max.w) THEN Panic
    ELSE Vec4_new(ty, ty,
        Ok(IF self.x < min.x THEN min.x ELSE IF self.x > max.x THEN max.x ELSE self.x),
        Ok(IF self.y < min.y THEN min.y ELSE IF self.y > max.y THEN max.y ELSE self.y),
        Ok(IF self.z < min.z THEN min.z ELSE IF self.z > max.z THEN max.z ELSE self.z),
        Ok(IF self.w < min.w THEN min.w ELSE IF self.w > max.w THEN max.w ELSE self.w))

\* a + b and a - b for the outcomes of two operand expressions: a panic in an
\* operand is the panic of the whole expression.
T_add_outcomes(ty, oa, ob, dbg) ==
    IF oa.panic \/ ob.panic THEN Panic ELSE T_add(ty, oa.val, ob.val, dbg)

T_sub_outcomes(ty, oa, ob, dbg) ==
    IF oa.panic \/ ob.panic THEN Panic ELSE T_sub(ty, oa.val, ob.val, dbg)

\* self + rhs for two Vec3; self * rhs (component-wise) for two vectors
Vec3_add(ty, self, rhs, dbg) ==
    Vec3_new(ty, ty, T_add(ty, self.x, rhs.x, dbg), T_add(ty, self.y, rhs.y, dbg),
             T_add(ty, self.z, rhs.z, dbg))

Vec2_mul(ty, self, rhs, dbg) ==
    Vec2_new(ty, ty, T_mul(ty, self.x, rhs.x, dbg), T_mul(ty, self.y, rhs.y, dbg))

\* The product of two Vec3 with z taken from self.z * rhs.x.
Vec3_mul_skewed(ty, self, rhs, dbg) ==
    Vec3_new(ty, ty, T_mul(ty, self.x, rhs.x, dbg), T_mul(ty, self.y, rhs.y, dbg),
             T_mul(ty, self.z, rhs.x, dbg))

Vec3_mul(ty, self, rhs, dbg) ==
    Vec3_new(ty, ty, T_mul(ty, self.x, rhs.x, dbg), T_mul(ty, self.y, rhs.y, dbg),
             T_mul(ty, self.z, rhs.z, dbg))

Vec4_mul(ty, self, rhs, dbg) ==
    Vec4_new(ty, ty, T_mul(ty, self.x, rhs.x, dbg), T_mul(ty, self.y, rhs.y, dbg),
             T_mul(ty, self.z, rhs.z, dbg), T_mul(ty, self.w, rhs.w, dbg))

\* The dot product of two Vec3 without the z term.
Vec3_dot_no_z(ty, self, rhs, dbg) ==
    T_add_outcomes(ty, T_mul(ty, self.x, rhs.x, dbg), T_mul(ty, self.y, rhs.y, dbg), dbg)

\* VecTrait::dot for Vec3
Vec3_dot(ty, self, rhs, dbg) ==
    T_add_outcomes(ty,
        T_add_outcomes(ty, T_mul(ty, self.x, rhs.x, dbg),
                           T_mul(ty, self.y, rhs.y, dbg), dbg),
        T_mul(ty, self.z, rhs.z, dbg), dbg)

\* The cross product with the operands of the y component in the other order.
Vec3_cross_y_swapped(ty, self, rhs, dbg) ==
    Vec3_new(ty, ty,
        T_sub_outcomes(ty, T_mul(ty, self.y, rhs.z, dbg), T_mul(ty, self.z, rhs.y, dbg), dbg),
        T_sub_outcomes(ty, T_mul(ty, self.x, rhs.z, dbg), T_mul(ty, self.z, rhs.x, dbg), dbg),
        T_sub_outcomes(ty, T_mul(ty, self.x, rhs.y, dbg), T_mul(ty, self.y, rhs.x, dbg), dbg))

\* Vec3::cross
Vec3_cross(ty, self, rhs, dbg) ==
    Vec3_new(ty, ty,
        T_sub_outcomes(ty, T_mul(ty, self.y, rhs.z, dbg), T_mul(ty, self.z, rhs.y, dbg), dbg),
        T_sub_outcomes(ty, T_mul(ty, self.z, rhs.x, dbg), T_mul(ty, self.x, rhs.z, dbg), dbg),
        T_sub_outcomes(ty, T_mul(ty, self.x, rhs.y, dbg), T_mul(ty, self.y, rhs.x, dbg), dbg))

\* f32 values that are no numbers: the infinities and NaN, held as integers
\* beyond every number the model computes.
F32_Inf == 2 ^ (IntBits + TBits + 4)

F32_NaN == F32_Inf + 1

\* f32 / f32 in fixed point, rounded toward zero; x / 0.0 is an infinity and
\* 0.0 / 0.0 is NaN (a float division does not panic).
F32_div(a, b) ==
    IF b = 0 THEN (IF a = 0 THEN F32_NaN ELSE IF a > 0 THEN F32_Inf ELSE -F32_Inf)
    ELSE IF b > 0 THEN TruncDiv(a * TDen, b)
    ELSE TruncDiv((-a) * TDen, -b)

\* The largest r from r0 on with r * r <= n.
RECURSIVE IntSqrtFrom(_, _)
IntSqrtFrom(n, r0) ==
    IF (r0 + 1) * (r0 + 1) > n THEN r0 ELSE IntSqrtFrom(n, r0 + 1)

\* f32::sqrt in fixed point, rounded down (a >= 0).
F32_sqrt(a) == IntSqrtFrom(a * TDen, 0)

\* VecTraitF::length: the square root of the sum of the squares, in f32.
Vec2_length(self) ==
    F32_sqrt(F32_mul(self.x, self.x) + F32_mul(self.y, self.y))

Vec3_length(self) ==
    F32_sqrt(F32_mul(self.x, self.x) + F32_mul(self.y, self.y)
             + F32_mul(self.z, self.z))

Vec4_length(self) ==
    F32_sqrt(F32_mul(self.x, self.x) + F32_mul(self.y, self.y)
             + F32_mul(self.z, self.z) + F32_mul(self.w, self.w))

\* VecTrait::zero for Vec2 and Vec4, Vec3::zero
Vec2_zero(ty) == Vec2_new(ty, ty, Ok(Lit(ty, 0)), Ok(Lit(ty, 0)))

Vec3_zero(ty) == Vec3_new(ty, ty, Ok(Lit(ty, 0)), Ok(Lit(ty, 0)), Ok(Lit(ty, 0)))

Vec4_zero(ty) ==
    Vec4_new(ty, ty, Ok(Lit(ty, 0)), Ok(Lit(ty, 0)), Ok(Lit(ty, 0)), Ok(Lit(ty, 0)))

\* VecTraitF::normalize (the scalar type is a float)
Vec2_normalize(self) ==
    LET length == Vec2_length(self)
    IN  IF length # Lit("f32", 0)
        THEN Vec2_new("f32", "f32", Ok(F32_div(self.x, length)),
                      Ok(F32_div(self.y, length)))
        ELSE Vec2_zero("f32")

Vec3_normalize(self) ==
    LET length == Vec3_length(self)
    IN  IF length # Lit("f32", 0)
        THEN Vec3_new("f32", "f32", Ok(F32_div(self.x, length)),
                      Ok(F32_div(self.y, length)), Ok(F32_div(self.z, length)))
        ELSE Vec3_zero("f32")

\* normalize for Vec4 dividing by the length whatever it is.
Vec4_normalize_unguarded(self) ==
    LET length == Vec4_length(self)
    IN  Vec4_new("f32", "f32", Ok(F32_div(self.x, length)),
                 Ok(F32_div(self.y, length)), Ok(F32_div(self.z, length)),
                 Ok(F32_div(self.w, length)))

Vec4_normalize(self) ==
    LET length == Vec4_length(self)
    IN  IF length # Lit("f32", 0)
        THEN Vec4_new("f32", "f32", Ok(F32_div(self.x, length)),
                      Ok(F32_div(self.y, length)), Ok(F32_div(self.z, length)),
                      Ok(F32_div(self.w, length)))
        ELSE Vec4_zero("f32")

\* Vec2 from a Vec3 taking y, z.
Vec2_from_Vec3_yz(ty, uty, value) ==
    Vec2_new(ty, ty, Cast(ty, uty, value.y), Cast(ty, uty, value.z))

\* From<&VecM<U>> for VecN<T>: the leading components are cast to T, the
\* components the source does not have are T::zero ().
Vec2_from_Vec3(ty, uty, value) ==
    Vec2_new(ty, ty, Cast(ty, uty, value.x), Cast(ty, uty, value.y))

Vec2_from_Vec4(ty, uty, value) ==
    Vec2_new(ty, ty, Cast(ty, uty, value.x), Cast(ty, uty, value.y))

Vec3_from_Vec2(ty, uty, value) ==
    Vec3_new(ty, ty, Cast(ty, uty, value.x), Cast(ty, uty, value.y), Ok(Lit(ty, 0)))

\* Vec3 from a Vec4 taking y, z, w.
Vec3_from_Vec4_shifted(ty, uty, value) ==
    Vec3_new(ty, ty, Cast(ty, uty, value.y), Cast(ty, uty, value.z),
             Cast(ty, uty, value.w))

Vec3_from_Vec4(ty, uty, value) ==
    Vec3_new(ty, ty, Cast(ty, uty, value.x), Cast(ty, uty, value.y),
             Cast(ty, uty, value.z))

Vec4_from_Vec2(ty, uty, value) ==
    Vec4_new(ty, ty, Cast(ty, uty, value.x), Cast(ty, uty, value.y),
             Ok(Lit(ty, 0)), Ok(Lit(ty, 0)))

Vec4_from_Vec3(ty, uty, value) ==
    Vec4_new(ty, ty, Cast(ty, uty, value.x), Cast(ty, uty, value.y),
             Cast(ty, uty, value.z), Ok(Lit(ty, 0)))

\* The f32 negative zero, held as an integer beyond every number: it equals
\* 0.0 in every comparison and is a different value (its sign bit is set).
F32_NegZero == F32_Inf + 2

\* The number a value of T stands for in a comparison.
T_num(a) == IF a = F32_NegZero THEN 0 ELSE a

\* lhs > rhs and lhs < rhs of PartialOrd
T_gt(lhs, rhs) == T_num(lhs) > T_num(rhs)

T_lt(lhs, rhs) == T_num(lhs) < T_num(rhs)

\* max returning rhs whatever lhs is.
util_max_rhs(lhs, rhs) == rhs

\* min comparing with <=, which returns lhs when lhs == rhs.
util_min_le(lhs, rhs) == IF T_num(lhs) <= T_num(rhs) THEN lhs ELSE rhs

\* util::max, util::min
util_max(lhs, rhs) == IF T_gt(lhs, rhs) THEN lhs ELSE rhs

util_min(lhs, rhs) == IF T_lt(lhs, rhs) THEN lhs ELSE rhs

\* MinMax::max, MinMax::min for a scalar
MinMax_max(lhs, rhs) == IF T_gt(lhs, rhs) THEN lhs ELSE rhs

MinMax_min(lhs, rhs) == IF T_lt(lhs, rhs) THEN lhs ELSE rhs

\* MinMax for Vec2, VecTrait::max / min for Vec3, MinMax for Vec4
Vec2_max(ty, lhs, rhs) ==
    Vec2_new(ty, ty, Ok(IF T_gt(lhs.x, rhs.x) THEN lhs.x ELSE rhs.x),
                     Ok(IF T_gt(lhs.y, rhs.y) THEN lhs.y ELSE rhs.y))

Vec2_min(ty, lhs, rhs) ==
    Vec2_new(ty, ty, Ok(IF T_lt(lhs.x, rhs.x) THEN lhs.x ELSE rhs.x),
                     Ok(IF T_lt(lhs.y, rhs.y) THEN lhs.y ELSE rhs.y))

Vec3_max(ty, lhs, rhs) ==
    Vec3_new(ty, ty, Ok(util_max(lhs.x, rhs.x)), Ok(util_max(lhs.y, rhs.y)),
             Ok(util_max(lhs.z, rhs.z)))

Vec3_min(ty, lhs, rhs) ==
    Vec3_new(ty, ty, Ok(util_min(lhs.x, rhs.x)), Ok(util_min(lhs.y, rhs.y)),
             Ok(util_min(lhs.z, rhs.z)))

Vec4_max(ty, lhs, rhs) ==
    Vec4_new(ty, ty, Ok(MinMax_max(lhs.x, rhs.x)), Ok(MinMax_max(lhs.y, rhs.y)),
             Ok(MinMax_max(lhs.z, rhs.z)), Ok(MinMax_max(lhs.w, rhs.w)))

Vec4_min(ty, lhs, rhs) ==
    Vec4_new(ty, ty, Ok(MinMax_min(lhs.x, rhs.x)), Ok(MinMax_min(lhs.y, rhs.y)),
             Ok(MinMax_min(lhs.z, rhs.z)), Ok(MinMax_min(lhs.w, rhs.w)))

\* A division that yields 0 for a zero divisor.
T_div_zero_checked(ty, a, b) ==
    IF ty = "f32" THEN Ok(F32_div(a, b))
    ELSE IF b = 0 THEN Ok(0)
    ELSE IF a = IntMin(ty) /\ b = -1 THEN Panic
    ELSE IF b > 0 THEN Ok(TruncDiv(a, b))
    ELSE Ok(TruncDiv(-a, -b))

\* a / b of T: an integer division by zero panics in every build, and so does
\* the one overflowing quotient (the smallest value by -1); an integer
\* quotient is truncated toward zero; an f32 division does not panic.
T_div(ty, a, b) ==
    IF ty = "f32" THEN Ok(F32_div(a, b))
    ELSE IF b = 0 THEN Panic
    ELSE IF a = IntMin(ty) /\ b = -1 THEN Panic
    ELSE IF b > 0 THEN Ok(TruncDiv(a, b))
    ELSE Ok(TruncDiv(-a, -b))

\* a op b of T, for the operator an impl applies to the components
T_op(operator, ty, a, b, dbg) ==
    CASE operator = "add" -> T_add(ty, a, b, dbg)
      [] operator = "sub" -> T_sub(ty, a, b, dbg)
      [] operator = "mul" -> T_mul(ty, a, b, dbg)
      [] operator = "div" -> T_div(ty, a, b)

\* Add, Sub, Mul and Div of Vec2, Vec3 and Vec4, in their four value and
\* reference forms: VecN::new (self.x op rhs.x, ..) for a vector rhs and
\* VecN::new (self.x op rhs, ..) for a scalar rhs.
Vec_op(operator, ty, self, rhs, dbg) ==
    LET c(n) == T_op(operator, ty, self[n], rhs[n], dbg)
    IN  CASE DOMAIN self = {"x", "y"} -> Vec2_new(ty, ty, c("x"), c("y"))
          [] DOMAIN self = {"x", "y", "z"} -> Vec3_new(ty, ty, c("x"), c("y"), c("z"))
          [] DOMAIN self = {"x", "y", "z", "w"} ->
                Vec4_new(ty, ty, c("x"), c("y"), c("z"), c("w"))

Vec_op_scalar(operator, ty, self, rhs, dbg) ==
    LET c(n) == T_op(operator, ty, self[n], rhs, dbg)
    IN  CASE DOMAIN self = {"x", "y"} -> Vec2_new(ty, ty, c("x"), c("y"))
          [] DOMAIN self = {"x", "y", "z"} -> Vec3_new(ty, ty, c("x"), c("y"), c("z"))
          [] DOMAIN self = {"x", "y", "z", "w"} ->
                Vec4_new(ty, ty, c("x"), c("y"), c("z"), c("w"))

\* op= for two vectors that leaves w as it is.
Vec_op_assign_no_w(operator, ty, self, rhs, dbg) ==
    LET c(n) == T_op(operator, ty, self[n], rhs[n], dbg)
    IN  IF \E n \in DOMAIN self \ {"w"} : c(n).panic THEN Panic
        ELSE Ok([n \in DOMAIN self |-> IF n = "w" THEN self[n] ELSE c(n).val])

\* AddAssign, SubAssign, MulAssign and DivAssign of Vec2, Vec3 and Vec4:
\* self.x = self.x op rhs.x; .. for a vector rhs and self.x = self.x op rhs;
\* .. for a scalar rhs. The result is self afterwards.
Vec_op_assign(operator, ty, self, rhs, dbg) ==
    LET c(n) == T_op(operator, ty, self[n], rhs[n], dbg)
    IN  IF \E n \in DOMAIN self : c(n).panic THEN Panic
        ELSE Ok([n \in DOMAIN self |-> c(n).val])

Vec_op_assign_scalar(operator, ty, self, rhs, dbg) ==
    LET c(n) == T_op(operator, ty, self[n], rhs, dbg)
    IN  IF \E n \in DOMAIN self : c(n).panic THEN Panic
        ELSE Ok([n \in DOMAIN self |-> c(n).val])

\* From<U> for VecN<T>: value is cast to T for every component.
Vec2_from(ty, uty, value) ==
    Vec2_new(ty, ty, Cast(ty, uty, value), Cast(ty, uty, value))

Vec3_from(ty, uty, value) ==
    Vec3_new(ty, ty, Cast(ty, uty, value), Cast(ty, uty, value), Cast(ty, uty, value))

Vec4_from(ty, uty, value) ==
    Vec4_new(ty, ty, Cast(ty, uty, value), Cast(ty, uty, value),
             Cast(ty, uty, value), Cast(ty, uty, value))

\* The named vectors. V::from (-1).unwrap () casts the i32 literal -1 to V.
\* Vec2::up, down, right, left
Vec2_preset(ty, preset) ==
    CASE preset = "up" -> Vec2_new(ty, ty, Ok(Lit(ty, 0)), Ok(Lit(ty, 1)))
      [] preset = "down" -> Vec2_new(ty, ty, Ok(Lit(ty, 0)), Cast(ty, "signed", -1))
      [] preset = "right" -> Vec2_new(ty, ty, Ok(Lit(ty, 1)), Ok(Lit(ty, 0)))
      [] preset = "left" -> Vec2_new(ty, ty, Cast(ty, "signed", -1), Ok(Lit(ty, 0)))

\* Vec3::up, down, left, right, forward, back
Vec3_preset(ty, preset) ==
    LET zero == Ok(Lit(ty, 0))
        one == Ok(Lit(ty, 1))
        minus == Cast(ty, "signed", -1)
    IN  CASE preset = "up" -> Vec3_new(ty, ty, zero, one, zero)
          [] preset = "down" -> Vec3_new(ty, ty, zero, minus, zero)
          [] preset = "left" -> Vec3_new(ty, ty, minus, zero, zero)
          [] preset = "right" -> Vec3_new(ty, ty, one, zero, zero)
          [] preset = "forward" -> Vec3_new(ty, ty, zero, zero, one)
          [] preset = "back" -> Vec3_new(ty, ty, zero, zero, minus)

\* Vec4::up, down, right, left, forward, back
Vec4_preset(ty, preset) ==
    LET zero == Ok(Lit(ty, 0))
        one == Ok(Lit(ty, 1))
        minus == Cast(ty, "signed", -1)
    IN  CASE preset = "up" -> Vec4_new(ty, ty, zero, one, zero, zero)
          [] preset = "down" -> Vec4_new(ty, ty, zero, minus, zero, zero)
          [] preset = "right" -> Vec4_new(ty, ty, one, zero, zero, zero)
          [] preset = "left" -> Vec4_new(ty, ty, minus, zero, zero, zero)
          [] preset = "forward" -> Vec4_new(ty, ty, zero, zero, one, zero)
          [] preset = "back" -> Vec4_new(ty, ty, zero, zero, minus, zero)

\* Mat3::new and Mat4::new with arguments of a type C, row by row; Mat::from
\* of a scalar and of a vector (the vector is every row).
Mat3_new_C(ty, cty, e) ==
    LET r1 == Vec3_new(ty, cty, Ok(e[1]), Ok(e[2]), Ok(e[3]))
        r2 == Vec3_new(ty, cty, Ok(e[4]), Ok(e[5]), Ok(e[6]))
        r3 == Vec3_new(ty, cty, Ok(e[7]), Ok(e[8]), Ok(e[9]))
    IN  IF r1.panic \/ r2.panic \/ r3.panic THEN Panic
        ELSE Ok([array |-> [i \in 0 .. 2 |->
                    CASE i = 0 -> r1.val [] i = 1 -> r2.val [] i = 2 -> r3.val]])

Mat4_new_C(ty, cty, e) ==
    LET r1 == Vec4_new(ty, cty, Ok(e[1]), Ok(e[2]), Ok(e[3]), Ok(e[4]))
        r2 == Vec4_new(ty, cty, Ok(e[5]), Ok(e[6]), Ok(e[7]), Ok(e[8]))
        r3 == Vec4_new(ty, cty, Ok(e[9]), Ok(e[10]), Ok(e[11]), Ok(e[12]))
        r4 == Vec4_new(ty, cty, Ok(e[13]), Ok(e[14]), Ok(e[15]), Ok(e[16]))
    IN  IF r1.panic \/ r2.panic \/ r3.panic \/ r4.panic THEN Panic
        ELSE Ok([array |-> [i \in 0 .. 3 |->
                    CASE i = 0 -> r1.val [] i = 1 -> r2.val
                      [] i = 2 -> r3.val [] i = 3 -> r4.val]])

Mat3_from_C(ty, cty, value) == Mat3_new_C(ty, cty, [k \in 1 .. 9 |-> value])

Mat4_from_C(ty, cty, value) == Mat4_new_C(ty, cty, [k \in 1 .. 16 |-> value])

Mat3_from_Vec3(ty, cty, value) ==
    Mat3_new_C(ty, cty, <<value.x, value.y, value.z, value.x, value.y, value.z,
                          value.x, value.y, value.z>>)

Mat4_from_Vec4(ty, cty, value) ==
    Mat4_new_C(ty, cty, <<value.x, value.y, value.z, value.w,
                          value.x, value.y, value.z, value.w,
                          value.x, value.y, value.z, value.w,
                          value.x, value.y, value.z, value.w>>)

\* Sample vectors: the k-th has consecutive sample values as components, so
\* that over all k every component takes every sample value.
Vec2At(ty, k) == [x |-> ValAt(ty, k), y |-> ValAt(ty, k + 1)]

Vec3At(ty, k) ==
    [x |-> ValAt(ty, k), y |-> ValAt(ty, k + 1), z |-> ValAt(ty, k + 2)]

Vec4At(ty, k) ==
    [x |-> ValAt(ty, k), y |-> ValAt(ty, k + 1), z |-> ValAt(ty, k + 2),
     w |-> ValAt(ty, k + 3)]

Vec2s(ty) == {Vec2At(ty, k) : k \in 0 .. ValCount(ty) - 1}

Vec3s(ty) == {Vec3At(ty, k) : k \in 0 .. ValCount(ty) - 1}

Vec4s(ty) == {Vec4At(ty, k) : k \in 0 .. ValCount(ty) - 1}

\* Every Vec3 over the sample values, and the unit vectors.
Vec3All(ty) == {[x |-> a, y |-> b, z |-> c] : a \in Vals(ty), b \in Vals(ty), c \in Vals(ty)}

Vec3Units(ty) ==
    {[x |-> Lit(ty, 1), y |-> Lit(ty, 0), z |-> Lit(ty, 0)],
     [x |-> Lit(ty, 0), y |-> Lit(ty, 1), z |-> Lit(ty, 0)],
     [x |-> Lit(ty, 0), y |-> Lit(ty, 0), z |-> Lit(ty, 1)]}

\* f32 components for normalize: zero, the smallest fractions (whose squares
\* underflow to zero) and whole numbers.
F32Parts == {-1, 0, 1, Lit("f32", 1), Lit("f32", -MaxVal)}

\* u8 indices: those up to MaxIndex, and the largest.
Indices == (0 .. MaxIndex) \cup {255}

\* Values to write: the sample values and one that no sample vector holds.
WriteVals(ty) == Vals(ty) \cup {Lit(ty, MaxVal + 4)}

\* Arguments of max and min: the sample values and, for f32, both zeros;
\* the sample vectors and the vectors of equal zeros.
Zeros(ty) == IF ty = "f32" THEN {Lit(ty, 0), F32_NegZero} ELSE {Lit(ty, 0)}

MinMaxVals(ty) == Vals(ty) \cup Zeros(ty)

MinMaxVec2s(ty) == Vec2s(ty) \cup {[x |-> a, y |-> a] : a \in Zeros(ty)}

MinMaxVec3s(ty) == Vec3s(ty) \cup {[x |-> a, y |-> a, z |-> a] : a \in Zeros(ty)}

MinMaxVec4s(ty) ==
    Vec4s(ty) \cup {[x |-> a, y |-> a, z |-> a, w |-> a] : a \in Zeros(ty)}

\* Left operands of the arithmetic operators: the sample vectors and, for the
\* integer types, vectors of the smallest value, the largest value and -1.
Extremes(ty) ==
    IF ty = "f32" THEN {} ELSE {IntMin(ty), IntMax(ty), -1} \cap (IntMin(ty) .. IntMax(ty))

OpVec2s(ty) == Vec2s(ty) \cup {[x |-> a, y |-> b] : a \in Extremes(ty), b \in Extremes(ty)}

OpVec3s(ty) ==
    Vec3s(ty) \cup {[x |-> a, y |-> b, z |-> a] : a \in Extremes(ty), b \in Extremes(ty)}

OpVec4s(ty) ==
    Vec4s(ty)
        \cup {[x |-> a, y |-> b, z |-> b, w |-> a] : a \in Extremes(ty), b \in Extremes(ty)}

\* Arguments of the constructors: the sample values, the extremes of an
\* integer type and two f32 values with a fraction.
CastVals(ty) ==
    Vals(ty) \cup Extremes(ty)
        \cup (IF ty = "f32" THEN {Lit(ty, 1) + 1, -(Lit(ty, 1) + 1)} ELSE {})

\* Upper limits of a vector clamp that equal min in one component and are
\* greater than min in every other.
TouchingMaxes(ty, min) ==
    {[c \in DOMAIN min |-> IF c = e THEN min[c] ELSE min[c] + Lit(ty, 1)] : e \in DOMAIN min}

(***************************************************************************)
(* Colours: r, g, b, a are f32.                                            *)
(***************************************************************************)
\* RGBA::new for f32 arguments
RGBA_new(r, g, b, a) ==
    [r |-> Cast("f32", "f32", r).val, g |-> Cast("f32", "f32", g).val,
     b |-> Cast("f32", "f32", b).val, a |-> Cast("f32", "f32", a).val]

\* self + rhs, self - rhs for two RGBA; self * rhs for an f32 rhs
RGBA_add(self, rhs) ==
    RGBA_new(self.r + rhs.r, self.g + rhs.g, self.b + rhs.b, self.a + rhs.a)

RGBA_sub(self, rhs) ==
    RGBA_new(self.r - rhs.r, self.g - rhs.g, self.b - rhs.b, self.a - rhs.a)

RGBA_mul_f32(self, rhs) ==
    RGBA_new(F32_mul(self.r, rhs), F32_mul(self.g, rhs), F32_mul(self.b, rhs),
             F32_mul(self.a, rhs))

\* Lerp::lerp for RGBA: start + (end - start) * percentage.clamp (&0.0, &1.0)
RGBA_lerp(start, end, percentage, dbg) ==
    LET c == Clamp_clamp(percentage, Lit("f32", 0), Lit("f32", 1), dbg)
    IN  IF c.panic THEN Panic
        ELSE Ok(RGBA_add(start, RGBA_mul_f32(RGBA_sub(end, start), c.val)))

\* Lerp::lerp_unclamped for RGBA: start + (end - start) * percentage
RGBA_lerp_unclamped(start, end, percentage, dbg) ==
    Ok(RGBA_add(start, RGBA_mul_f32(RGBA_sub(end, start), percentage)))

\* The RGBA with the components of a Vec4 of f32.
RGBAOf(v) == [r |-> v.x, g |-> v.y, b |-> v.z, a |-> v.w]

(***************************************************************************)
(* Matrices: array is the array of the rows, indexed from 0.               *)
(***************************************************************************)
\* Mat3::new storing its arguments column by column.
Mat3_new_transposed(ty, m11, m12, m13, m21, m22, m23, m31, m32, m33) ==
    [array |-> [i \in 0 .. 2 |->
        CASE i = 0 -> Vec3_new(ty, ty, Ok(m11), Ok(m21), Ok(m31)).val
          [] i = 1 -> Vec3_new(ty, ty, Ok(m12), Ok(m22), Ok(m32)).val
          [] i = 2 -> Vec3_new(ty, ty, Ok(m13), Ok(m23), Ok(m33)).val]]

Mat3_new(ty, m11, m12, m13, m21, m22, m23, m31, m32, m33) ==
    [array |-> [i \in 0 .. 2 |->
        CASE i = 0 -> Vec3_new(ty, ty, Ok(m11), Ok(m12), Ok(m13)).val
          [] i = 1 -> Vec3_new(ty, ty, Ok(m21), Ok(m22), Ok(m23)).val
          [] i = 2 -> Vec3_new(ty, ty, Ok(m31), Ok(m32), Ok(m33)).val]]

Mat4_new(ty, m11, m12, m13, m14, m21, m22, m23, m24, m31, m32, m33, m34, m41, m42, m43, m44) ==
    [array |-> [i \in 0 .. 3 |->
        CASE i = 0 -> Vec4_new(ty, ty, Ok(m11), Ok(m12), Ok(m13), Ok(m14)).val
          [] i = 1 -> Vec4_new(ty, ty, Ok(m21), Ok(m22), Ok(m23), Ok(m24)).val
          [] i = 2 -> Vec4_new(ty, ty, Ok(m31), Ok(m32), Ok(m33), Ok(m34)).val
          [] i = 3 -> Vec4_new(ty, ty, Ok(m41), Ok(m42), Ok(m43), Ok(m44)).val]]

\* Mat3::from (value): every element is value.
Mat3_from(ty, value) ==
    Mat3_new(ty, value, value, value, value, value, value, value, value, value)

Mat4_from(ty, value) ==
    Mat4_new(ty, value, value, value, value, value, value, value, value,
             value, value, value, value, value, value, value, value)

\* The identity with the last element of the diagonal left at zero.
Mat3_identity_short(ty) ==
    Mat3_new(ty, Lit(ty, 1), Lit(ty, 0), Lit(ty, 0),
                 Lit(ty, 0), Lit(ty, 1), Lit(ty, 0),
                 Lit(ty, 0), Lit(ty, 0), Lit(ty, 0))

Mat3_identity(ty) ==
    Mat3_new(ty, Lit(ty, 1), Lit(ty, 0), Lit(ty, 0),
                 Lit(ty, 0), Lit(ty, 1), Lit(ty, 0),
                 Lit(ty, 0), Lit(ty, 0), Lit(ty, 1))

Mat4_identity(ty) ==
    Mat4_new(ty, Lit(ty, 1), Lit(ty, 0), Lit(ty, 0), Lit(ty, 0),
                 Lit(ty, 0), Lit(ty, 1), Lit(ty, 0), Lit(ty, 0),
                 Lit(ty, 0), Lit(ty, 0), Lit(ty, 1), Lit(ty, 0),
                 Lit(ty, 0), Lit(ty, 0), Lit(ty, 0), Lit(ty, 1))

Mat3_index(self, index) ==
    CASE index = 0 -> Ok(self.array[0])
      [] index = 1 -> Ok(self.array[1])
      [] index = 2 -> Ok(self.array[2])
      [] OTHER -> Panic

Mat4_index(self, index) ==
    CASE index = 0 -> Ok(self.array[0])
      [] index = 1 -> Ok(self.array[1])
      [] index = 2 -> Ok(self.array[2])
      [] index = 3 -> Ok(self.array[3])
      [] OTHER -> Panic

\* The inner loop of Mat3::mul for one element m[row][col], from iteration
\* inner on: m[row][col] += self[row][inner] * rhs[inner][col], for inner
\* up to n (exclusive); acc is the element so far (0 in Mat3::from (0)).
RECURSIVE Mat3_mul_inner(_, _, _, _, _, _, _)
Mat3_mul_inner(self, rhs, row, col, n, inner, acc) ==
    IF inner >= n THEN acc
    ELSE Mat3_mul_inner(self, rhs, row, col, n, inner + 1,
             acc + Vec3_index(Mat3_index(self, row).val, inner).val
                   * Vec3_index(Mat3_index(rhs, inner).val, col).val)

\* The loops over row and col in 0..3: every element of the result, each the
\* outcome of its inner loop over 0..n started from its value in m.
Mat3_mul_loops(self, rhs, m, n) ==
    [array |-> [row \in 0 .. 2 |->
        [x |-> Mat3_mul_inner(self, rhs, row, 0, n, 0, Vec3_index(Mat3_index(m, row).val, 0).val),
         y |-> Mat3_mul_inner(self, rhs, row, 1, n, 0, Vec3_index(Mat3_index(m, row).val, 1).val),
         z |-> Mat3_mul_inner(self, rhs, row, 2, n, 0, Vec3_index(Mat3_index(m, row).val, 2).val)]]]

\* The product with the operands of an element swapped: rhs[col][inner].
Mat3_mul_transposed(self, rhs) ==
    Mat3_mul_loops(self,
        [array |-> [i \in 0 .. 2 |->
            [x |-> Vec3_index(Mat3_index(rhs, 0).val, i).val,
             y |-> Vec3_index(Mat3_index(rhs, 1).val, i).val,
             z |-> Vec3_index(Mat3_index(rhs, 2).val, i).val]]],
        Mat3_from("signed", 0), 3)

Mat3_mul(self, rhs) == Mat3_mul_loops(self, rhs, Mat3_from("signed", 0), 3)

RECURSIVE Mat4_mul_inner(_, _, _, _, _, _, _)
Mat4_mul_inner(self, rhs, row, col, n, inner, acc) ==
    IF inner >= n THEN acc
    ELSE Mat4_mul_inner(self, rhs, row, col, n, inner + 1,
             acc + Vec4_index(Mat4_index(self, row).val, inner).val
                   * Vec4_index(Mat4_index(rhs, inner).val, col).val)

Mat4_mul_loops(self, rhs, m, n) ==
    [array |-> [row \in 0 .. 3 |->
        [x |-> Mat4_mul_inner(self, rhs, row, 0, n, 0, Vec4_index(Mat4_index(m, row).val, 0).val),
         y |-> Mat4_mul_inner(self, rhs, row, 1, n, 0, Vec4_index(Mat4_index(m, row).val, 1).val),
         z |-> Mat4_mul_inner(self, rhs, row, 2, n, 0, Vec4_index(Mat4_index(m, row).val, 2).val),
         w |-> Mat4_mul_inner(self, rhs, row, 3, n, 0, Vec4_index(Mat4_index(m, row).val, 3).val)]]]

\* The 4x4 product with the inner loop over 0..3 only.
Mat4_mul_short(self, rhs) ==
    Mat4_mul_loops(self, rhs, Mat4_from("signed", 0), 3)

Mat4_mul(self, rhs) == Mat4_mul_loops(self, rhs, Mat4_from("signed", 0), 4)

\* Sample matrices: row i of the (a, b)-th is sample vector a + b * i.
Mat3At(a, b) == [array |-> [i \in 0 .. 2 |-> Vec3At("signed", a + b * i)]]

Mat4At(a, b) == [array |-> [i \in 0 .. 3 |-> Vec4At("signed", a + b * i)]]

Seeds == 0 .. ValCount("signed") - 1

Mat3Inputs ==
    {Mat3At(a, b) : a \in Seeds, b \in Seeds}
        \cup {Mat3_identity("signed"), Mat3_from("signed", 0)}

Mat4Inputs ==
    {Mat4At(a, b) : a \in Seeds, b \in Seeds}
        \cup {Mat4_identity("signed"), Mat4_from("signed", 0)}

Mat3Few == {Mat3At(a, 1) : a \in Seeds} \cup {Mat3_identity("signed")}

Mat4Few == {Mat4At(a, 1) : a \in Seeds} \cup {Mat4_identity("signed")}

\* Arguments of Mat3::new and Mat4::new: n consecutive values from base on.
NewArgs(ty, base, n) == [k \in 1 .. n |-> Lit(ty, base + k - 1)]

\* m[index][col] = value: self after the assignment. index_mut of the
\* matrix selects the row, index_mut of the row the component.
Mat3_index_mut(self, index, col, value) ==
    LET row(i) == Vec3_index_mut(self.array[i], col, value)
        put(i) == IF row(i).panic THEN Panic
                  ELSE Ok([array |-> [self.array EXCEPT ![i] = row(i).val]])
    IN  CASE index = 0 -> put(0)
          [] index = 1 -> put(1)
          [] index = 2 -> put(2)
          [] OTHER -> Panic

\* Mat4 index_mut whose assignment reaches every component of the row.
Mat4_index_mut_whole_row(self, index, col, value) ==
    IF index \notin 0 .. 3 \/ col \notin 0 .. 3 THEN Panic
    ELSE Ok([array |-> [self.array EXCEPT
                ![index] = [x |-> value, y |-> value, z |-> value, w |-> value]]])

Mat4_index_mut(self, index, col, value) ==
    LET row(i) == Vec4_index_mut(self.array[i], col, value)
        put(i) == IF row(i).panic THEN Panic
                  ELSE Ok([array |-> [self.array EXCEPT ![i] = row(i).val]])
    IN  CASE index = 0 -> put(0)
          [] index = 1 -> put(1)
          [] index = 2 -> put(2)
          [] index = 3 -> put(3)
          [] OTHER -> Panic

(***************************************************************************)
(* The locals of a client that holds a value and a copy of it. Vectors and *)
(* matrices are Copy structs of scalars (a matrix of an array of vectors): *)
(* a local holds the value itself, and an assignment to a local, or        *)
(* through a &mut borrow of it, replaces the value of that local.          *)
(***************************************************************************)
\* An assignment that reaches every local: the locals share one value.
Assign_aliased(locals, name, value) == [n \in DOMAIN locals |-> value]

Assign(locals, name, value) == [locals EXCEPT ![name] = value]

\* let original = value; let mut copy = original;
LetCopy(value) == Assign([original |-> value, copy |-> 0], "copy", value)

\* v[index] = value for a vector of a kind; v[index]
IndexMut(kind, self, index, value) ==
    CASE kind = "Vec2" -> Vec2_index_mut(self, index, value)
      [] kind = "Vec3" -> Vec3_index_mut(self, index, value)
      [] kind = "Vec4" -> Vec4_index_mut(self, index, value)

Index(kind, self, index) ==
    CASE kind = "Vec2" -> Vec2_index(self, index)
      [] kind = "Vec3" -> Vec3_index(self, index)
      [] kind = "Vec4" -> Vec4_index(self, index)

\* m[index][col] = value for a matrix of a kind; m[index][col]; m * rhs
MatIndexMut(kind, self, index, col, value) ==
    CASE kind = "Mat3" -> Mat3_index_mut(self, index, col, value)
      [] kind = "Mat4" -> Mat4_index_mut(self, index, col, value)

MatIndex(kind, self, index, col) ==
    CASE kind = "Mat3" ->
            IF Mat3_index(self, index).panic THEN Panic
            ELSE Vec3_index(Mat3_index(self, index).val, col)
      [] kind = "Mat4" ->
            IF Mat4_index(self, index).panic THEN Panic
            ELSE Vec4_index(Mat4_index(self, index).val, col)

MatMul(kind, self, rhs) ==
    CASE kind = "Mat3" -> Mat3_mul(self, rhs)
      [] kind = "Mat4" -> Mat4_mul(self, rhs)

\* The number of components of a vector and of rows of a matrix of a kind.
Size(kind) ==
    CASE kind = "Vec2" -> 2 [] kind = "Vec3" -> 3 [] kind = "Vec4" -> 4
      [] kind = "Mat3" -> 3 [] kind = "Mat4" -> 4

\* The values a client starts from, and the values it writes.
VecKinds == {"Vec2", "Vec3", "Vec4"}

MatKinds == {"Mat3", "Mat4"}

Operators == {"add", "sub", "mul", "div"}

\* The sample vectors of a kind, the left operands of an operator and the
\* names of the presets.
SampleVecs(kind, ty) ==
    CASE kind = "Vec2" -> Vec2s(ty) [] kind = "Vec3" -> Vec3s(ty) [] kind = "Vec4" -> Vec4s(ty)

OpVecs(kind, ty) ==
    CASE kind = "Vec2" -> OpVec2s(ty) [] kind = "Vec3" -> OpVec3s(ty)
      [] kind = "Vec4" -> OpVec4s(ty)

Presets(kind) ==
    IF kind = "Vec2" THEN {"up", "down", "right", "left"}
    ELSE {"up", "down", "left", "right", "forward", "back"}

HeldVecs(kind, ty) ==
    CASE kind = "Vec2" -> {Vec2At(ty, 0), Vec2At(ty, MaxVal)}
      [] kind = "Vec3" -> {Vec3At(ty, 0), Vec3At(ty, MaxVal)}
      [] kind = "Vec4" -> {Vec4At(ty, 0), Vec4At(ty, MaxVal)}

HeldMats(kind) ==
    CASE kind = "Mat3" -> {Mat3At(0, 1), Mat3_identity("signed")}
      [] kind = "Mat4" -> {Mat4At(0, 1), Mat4_identity("signed")}

HeldVals(ty) == {Lit(ty, 1), Lit(ty, MaxVal + 4)}

\* Components and columns a client writes: the first two, the last and the
\* first beyond the last; rows: the first, the last and the first beyond
\* the last.
HeldIndices(kind) == {0, 1, Size(kind) - 1, Size(kind)}

HeldRows(kind) == {0, Size(kind) - 1, Size(kind)}

(***************************************************************************)
(* The client.                                                             *)
(***************************************************************************)
Init ==
    /\ debug \in BOOLEAN
    /\ pc = "idle"
    /\ op = "none"
    /\ args = <<>>
    /\ out = Ok(0)

Call(name, a, r) ==
    /\ pc' = "returned"
    /\ op' = name
    /\ args' = a
    /\ out' = r
    /\ UNCHANGED debug

\* self * rhs for two Mat3
Mat3Mul ==
    /\ pc = "idle"
    /\ \E a \in Mat3Inputs, b \in Mat3Inputs :
        Call("Mat3::mul", [self |-> a, rhs |-> b], Ok(Mat3_mul(a, b)))

Mat4Mul ==
    /\ pc = "idle"
    /\ \E a \in Mat4Inputs, b \in Mat4Inputs :
        Call("Mat4::mul", [self |-> a, rhs |-> b], Ok(Mat4_mul(a, b)))

\* (a * b) * c and a * (b * c)
Mat3MulMul ==
    /\ pc = "idle"
    /\ \E a \in Mat3Few, b \in Mat3Few, c \in Mat3Few :
        \E ab \in {Mat3_mul(a, b)}, bc \in {Mat3_mul(b, c)} :
            Call("Mat3::mul.mul", [a |-> a, b |-> b, c |-> c],
                 Ok([left |-> Mat3_mul(ab, c), right |-> Mat3_mul(a, bc)]))

Mat4MulMul ==
    /\ pc = "idle"
    /\ \E a \in Mat4Few, b \in Mat4Few, c \in Mat4Few :
        \E ab \in {Mat4_mul(a, b)}, bc \in {Mat4_mul(b, c)} :
            Call("Mat4::mul.mul", [a |-> a, b |-> b, c |-> c],
                 Ok([left |-> Mat4_mul(ab, c), right |-> Mat4_mul(a, bc)]))

\* util::clamp (value, min, max)
UtilClamp ==
    /\ pc = "idle"
    /\ \E ty \in Types :
        \E value \in ClampVals(ty), min \in ClampVals(ty), max \in ClampVals(ty) :
            Call("util::clamp", [ty |-> ty, value |-> value, min |-> min, max |-> max],
                 util_clamp(value, min, max, debug))

\* value.clamp (&min, &max) for a scalar
ClampClamp ==
    /\ pc = "idle"
    /\ \E ty \in Types :
        \E value \in ClampVals(ty), min \in ClampVals(ty), max \in ClampVals(ty) :
            Call("Clamp::clamp", [ty |-> ty, value |-> value, min |-> min, max |-> max],
                 Clamp_clamp(value, min, max, debug))

Vec2Clamp ==
    /\ pc = "idle"
    /\ \E ty \in Types :
        \E value \in Vec2s(ty), min \in Vec2s(ty) :
          \E max \in Vec2s(ty) \cup TouchingMaxes(ty, min) :
            Call("Vec2::clamp", [ty |-> ty, value |-> value, min |-> min, max |-> max],
                 Vec2_clamp(ty, value, min, max, debug))

Vec3Clamp ==
    /\ pc = "idle"
    /\ \E ty \in Types :
        \E value \in Vec3s(ty), min \in Vec3s(ty) :
          \E max \in Vec3s(ty) \cup TouchingMaxes(ty, min) :
            Call("Vec3::clamp", [ty |-> ty, value |-> value, min |-> min, max |-> max],
                 Vec3_clamp(ty, value, min, max, debug))

Vec4Clamp ==
    /\ pc = "idle"
    /\ \E ty \in Types :
        \E value \in Vec4s(ty), min \in Vec4s(ty) :
          \E max \in Vec4s(ty) \cup TouchingMaxes(ty, min) :
            Call("Vec4::clamp", [ty |-> ty, value |-> value, min |-> min, max |-> max],
                 Vec4_clamp(ty, value, min, max, debug))

\* util::lerp (start, end, percentage)
UtilLerp ==
    /\ pc = "idle"
    /\ \E ty \in Types :
        \E start \in Vals(ty), end \in Vals(ty), percentage \in Percentages :
            Call("util::lerp",
                 [ty |-> ty, start |-> start, end |-> end, percentage |-> percentage],
                 util_lerp(ty, start, end, percentage, debug))

\* T::lerp (start, end, percentage)
LerpLerp ==
    /\ pc = "idle"
    /\ \E ty \in Types :
        \E start \in Vals(ty), end \in Vals(ty), percentage \in Percentages :
            Call("Lerp::lerp",
                 [ty |-> ty, start |-> start, end |-> end, percentage |-> percentage],
                 Lerp_lerp(ty, start, end, percentage, debug))

\* T::lerp_unclamped (start, end, percentage)
LerpLerpUnclamped ==
    /\ pc = "idle"
    /\ \E ty \in Types :
        \E start \in Vals(ty), end \in Vals(ty), percentage \in Percentages :
            Call("Lerp::lerp_unclamped",
                 [ty |-> ty, start |-> start, end |-> end, percentage |-> percentage],
                 Lerp_lerp_unclamped(ty, start, end, percentage, debug))

Vec2Lerp ==
    /\ pc = "idle"
    /\ \E ty \in Types :
        \E start \in Vec2s(ty), end \in Vec2s(ty), percentage \in Percentages :
            Call("Vec2::lerp",
                 [ty |-> ty, start |-> start, end |-> end, percentage |-> percentage],
                 Vec2_lerp(ty, start, end, percentage, debug))

Vec2LerpUnclamped ==
    /\ pc = "idle"
    /\ \E ty \in Types :
        \E start \in Vec2s(ty), end \in Vec2s(ty), percentage \in Percentages :
            Call("Vec2::lerp_unclamped",
                 [ty |-> ty, start |-> start, end |-> end, percentage |-> percentage],
                 Vec2_lerp_unclamped(ty, start, end, percentage, debug))

Vec3Lerp ==
    /\ pc = "idle"
    /\ \E ty \in Types :
        \E start \in Vec3s(ty), end \in Vec3s(ty), percentage \in Percentages :
            Call("Vec3::lerp",
                 [ty |-> ty, start |-> start, end |-> end, percentage |-> percentage],
                 Vec3_lerp(ty, start, end, percentage, debug))

Vec4Lerp ==
    /\ pc = "idle"
    /\ \E ty \in Types :
        \E start \in Vec4s(ty), end \in Vec4s(ty), percentage \in Percentages :
            Call("Vec4::lerp",
                 [ty |-> ty, start |-> start, end |-> end, percentage |-> percentage],
                 Vec4_lerp(ty, start, end, percentage, debug))

Vec4LerpUnclamped ==
    /\ pc = "idle"
    /\ \E ty \in Types :
        \E start \in Vec4s(ty), end \in Vec4s(ty), percentage \in Percentages :
            Call("Vec4::lerp_unclamped",
                 [ty |-> ty, start |-> start, end |-> end, percentage |-> percentage],
                 Vec4_lerp_unclamped(ty, start, end, percentage, debug))

\* self.cross (&rhs)
Vec3Cross ==
    /\ pc = "idle"
    /\ \E ty \in Types :
        \E a \in Vec3All(ty), b \in Vec3s(ty) \cup Vec3Units(ty) :
            Call("Vec3::cross", [ty |-> ty, self |-> a, rhs |-> b],
                 Vec3_cross(ty, a, b, debug))

\* c = self.cross (&rhs), then self.dot (&c) and rhs.dot (&c)
Vec3CrossDot ==
    /\ pc = "idle"
    /\ \E ty \in Types :
        \E a \in Vec3All(ty), b \in Vec3s(ty) \cup Vec3Units(ty) :
            \E c \in {Vec3_cross(ty, a, b, debug)} :
                Call("Vec3::cross.dot", [ty |-> ty, self |-> a, rhs |-> b],
                     IF c.panic THEN Panic
                     ELSE Ok([cross |-> c.val,
                              self_dot |-> Vec3_dot(ty, a, c.val, debug),
                              rhs_dot |-> Vec3_dot(ty, b, c.val, debug)]))

\* a + b and b + a; a * b and b * a
Vec2AddAdd ==
    /\ pc = "idle"
    /\ \E ty \in Types :
        \E a \in Vec2s(ty), b \in Vec2s(ty) :
            Call("Vec2::add.add", [ty |-> ty, a |-> a, b |-> b],
                 Ok([left |-> Vec2_add(ty, a, b, debug),
                     right |-> Vec2_add(ty, b, a, debug)]))

Vec3AddAdd ==
    /\ pc = "idle"
    /\ \E ty \in Types :
        \E a \in Vec3s(ty), b \in Vec3s(ty) :
            Call("Vec3::add.add", [ty |-> ty, a |-> a, b |-> b],
                 Ok([left |-> Vec3_add(ty, a, b, debug),
                     right |-> Vec3_add(ty, b, a, debug)]))

Vec4AddAdd ==
    /\ pc = "idle"
    /\ \E ty \in Types :
        \E a \in Vec4s(ty), b \in Vec4s(ty) :
            Call("Vec4::add.add", [ty |-> ty, a |-> a, b |-> b],
                 Ok([left |-> Vec4_add(ty, a, b, debug),
                     right |-> Vec4_add(ty, b, a, debug)]))

Vec2MulMul ==
    /\ pc = "idle"
    /\ \E ty \in Types :
        \E a \in Vec2s(ty), b \in Vec2s(ty) :
            Call("Vec2::mul.mul", [ty |-> ty, a |-> a, b |-> b],
                 Ok([left |-> Vec2_mul(ty, a, b, debug),
                     right |-> Vec2_mul(ty, b, a, debug)]))

Vec3MulMul ==
    /\ pc = "idle"
    /\ \E ty \in Types :
        \E a \in Vec3s(ty), b \in Vec3s(ty) :
            Call("Vec3::mul.mul", [ty |-> ty, a |-> a, b |-> b],
                 Ok([left |-> Vec3_mul(ty, a, b, debug),
                     right |-> Vec3_mul(ty, b, a, debug)]))

Vec4MulMul ==
    /\ pc = "idle"
    /\ \E ty \in Types :
        \E a \in Vec4s(ty), b \in Vec4s(ty) :
            Call("Vec4::mul.mul", [ty |-> ty, a |-> a, b |-> b],
                 Ok([left |-> Vec4_mul(ty, a, b, debug),
                     right |-> Vec4_mul(ty, b, a, debug)]))

\* self.normalize ()
Vec2Normalize ==
    /\ pc = "idle"
    /\ \E x \in F32Parts, y \in F32Parts :
        \E v \in {[x |-> x, y |-> y]} :
            Call("Vec2::normalize", [self |-> v], Vec2_normalize(v))

Vec3Normalize ==
    /\ pc = "idle"
    /\ \E x \in F32Parts, y \in F32Parts, z \in F32Parts :
        \E v \in {[x |-> x, y |-> y, z |-> z]} :
            Call("Vec3::normalize", [self |-> v], Vec3_normalize(v))

Vec4Normalize ==
    /\ pc = "idle"
    /\ \E x \in F32Parts, y \in F32Parts, z \in F32Parts, w \in F32Parts :
        \E v \in {[x |-> x, y |-> y, z |-> z, w |-> w]} :
            Call("Vec4::normalize", [self |-> v], Vec4_normalize(v))

\* VecN::<T>::from (&value) for a value of another dimension
Vec2FromVec3 ==
    /\ pc = "idle"
    /\ \E ty \in Types, uty \in Types :
        \E v \in Vec3s(uty) :
            Call("Vec2::from.Vec3", [ty |-> ty, uty |-> uty, value |-> v],
                 Vec2_from_Vec3(ty, uty, v))

Vec2FromVec4 ==
    /\ pc = "idle"
    /\ \E ty \in Types, uty \in Types :
        \E v \in Vec4s(uty) :
            Call("Vec2::from.Vec4", [ty |-> ty, uty |-> uty, value |-> v],
                 Vec2_from_Vec4(ty, uty, v))

Vec3FromVec2 ==
    /\ pc = "idle"
    /\ \E ty \in Types, uty \in Types :
        \E v \in Vec2s(uty) :
            Call("Vec3::from.Vec2", [ty |-> ty, uty |-> uty, value |-> v],
                 Vec3_from_Vec2(ty, uty, v))

Vec3FromVec4 ==
    /\ pc = "idle"
    /\ \E ty \in Types, uty \in Types :
        \E v \in Vec4s(uty) :
            Call("Vec3::from.Vec4", [ty |-> ty, uty |-> uty, value |-> v],
                 Vec3_from_Vec4(ty, uty, v))

Vec4FromVec2 ==
    /\ pc = "idle"
    /\ \E ty \in Types, uty \in Types :
        \E v \in Vec2s(uty) :
            Call("Vec4::from.Vec2", [ty |-> ty, uty |-> uty, value |-> v],
                 Vec4_from_Vec2(ty, uty, v))

Vec4FromVec3 ==
    /\ pc = "idle"
    /\ \E ty \in Types, uty \in Types :
        \E v \in Vec3s(uty) :
            Call("Vec4::from.Vec3", [ty |-> ty, uty |-> uty, value |-> v],
                 Vec4_from_Vec3(ty, uty, v))

\* Vec2::from (&Vec3::from (&v)), Vec2::from (&Vec4::from (&v)) and
\* Vec3::from (&Vec4::from (&v)), with one scalar type throughout
Vec2FromVec3FromVec2 ==
    /\ pc = "idle"
    /\ \E ty \in Types :
        \E v \in Vec2s(ty) :
            \E wide \in {Vec3_from_Vec2(ty, ty, v)} :
                Call("Vec2::from.Vec3::from.Vec2", [ty |-> ty, value |-> v],
                     IF wide.panic THEN Panic ELSE Vec2_from_Vec3(ty, ty, wide.val))

Vec2FromVec4FromVec2 ==
    /\ pc = "idle"
    /\ \E ty \in Types :
        \E v \in Vec2s(ty) :
            \E wide \in {Vec4_from_Vec2(ty, ty, v)} :
                Call("Vec2::from.Vec4::from.Vec2", [ty |-> ty, value |-> v],
                     IF wide.panic THEN Panic ELSE Vec2_from_Vec4(ty, ty, wide.val))

Vec3FromVec4FromVec3 ==
    /\ pc = "idle"
    /\ \E ty \in Types :
        \E v \in Vec3s(ty) :
            \E wide \in {Vec4_from_Vec3(ty, ty, v)} :
                Call("Vec3::from.Vec4::from.Vec3", [ty |-> ty, value |-> v],
                     IF wide.panic THEN Panic ELSE Vec3_from_Vec4(ty, ty, wide.val))

\* self[index]
Vec2Index ==
    /\ pc = "idle"
    /\ \E ty \in Types :
        \E v \in Vec2s(ty), i \in Indices :
            Call("Vec2::index", [ty |-> ty, self |-> v, index |-> i], Vec2_index(v, i))

Vec3Index ==
    /\ pc = "idle"
    /\ \E ty \in Types :
        \E v \in Vec3s(ty), i \in Indices :
            Call("Vec3::index", [ty |-> ty, self |-> v, index |-> i], Vec3_index(v, i))

Vec4Index ==
    /\ pc = "idle"
    /\ \E ty \in Types :
        \E v \in Vec4s(ty), i \in Indices :
            Call("Vec4::index", [ty |-> ty, self |-> v, index |-> i], Vec4_index(v, i))

\* self[index] = value; the result is self after the assignment
Vec2IndexMut ==
    /\ pc = "idle"
    /\ \E ty \in Types :
        \E v \in Vec2s(ty), i \in Indices, value \in WriteVals(ty) :
            Call("Vec2::index_mut", [ty |-> ty, self |-> v, index |-> i, value |-> value],
                 Vec2_index_mut(v, i, value))

Vec3IndexMut ==
    /\ pc = "idle"
    /\ \E ty \in Types :
        \E v \in Vec3s(ty), i \in Indices, value \in WriteVals(ty) :
            Call("Vec3::index_mut", [ty |-> ty, self |-> v, index |-> i, value |-> value],
                 Vec3_index_mut(v, i, value))

Vec4IndexMut ==
    /\ pc = "idle"
    /\ \E ty \in Types :
        \E v \in Vec4s(ty), i \in Indices, value \in WriteVals(ty) :
            Call("Vec4::index_mut", [ty |-> ty, self |-> v, index |-> i, value |-> value],
                 Vec4_index_mut(v, i, value))

\* m = Mat3::new (..), then m[row] and m[row][col]
Mat3NewIndex ==
    /\ pc = "idle"
    /\ \E ty \in Types, base \in 0 .. MaxVal, row \in Indices, col \in Indices :
        \E e \in {NewArgs(ty, base, 9)} :
            \E r \in {Mat3_index(Mat3_new(ty, e[1], e[2], e[3], e[4], e[5], e[6],
                                          e[7], e[8], e[9]), row)} :
                Call("Mat3::new.index", [ty |-> ty, new |-> e, row |-> row, col |-> col],
                     IF r.panic THEN Panic
                     ELSE Ok([row |-> r.val, elem |-> Vec3_index(r.val, col)]))

Mat4NewIndex ==
    /\ pc = "idle"
    /\ \E ty \in Types, base \in 0 .. MaxVal, row \in Indices, col \in Indices :
        \E e \in {NewArgs(ty, base, 16)} :
            \E r \in {Mat4_index(Mat4_new(ty, e[1], e[2], e[3], e[4], e[5], e[6],
                                          e[7], e[8], e[9], e[10], e[11], e[12],
                                          e[13], e[14], e[15], e[16]), row)} :
                Call("Mat4::new.index", [ty |-> ty, new |-> e, row |-> row, col |-> col],
                     IF r.panic THEN Panic
                     ELSE Ok([row |-> r.val, elem |-> Vec4_index(r.val, col)]))

\* max (lhs, rhs) and min (lhs, rhs): the free functions, the scalar trait and
\* the vectors
UtilMax ==
    /\ pc = "idle"
    /\ \E ty \in Types :
        \E lhs \in MinMaxVals(ty), rhs \in MinMaxVals(ty) :
            Call("util::max", [ty |-> ty, lhs |-> lhs, rhs |-> rhs], Ok(util_max(lhs, rhs)))

UtilMin ==
    /\ pc = "idle"
    /\ \E ty \in Types :
        \E lhs \in MinMaxVals(ty), rhs \in MinMaxVals(ty) :
            Call("util::min", [ty |-> ty, lhs |-> lhs, rhs |-> rhs], Ok(util_min(lhs, rhs)))

MinMaxMax ==
    /\ pc = "idle"
    /\ \E ty \in Types :
        \E lhs \in MinMaxVals(ty), rhs \in MinMaxVals(ty) :
            Call("MinMax::max", [ty |-> ty, lhs |-> lhs, rhs |-> rhs], Ok(MinMax_max(lhs, rhs)))

MinMaxMin ==
    /\ pc = "idle"
    /\ \E ty \in Types :
        \E lhs \in MinMaxVals(ty), rhs \in MinMaxVals(ty) :
            Call("MinMax::min", [ty |-> ty, lhs |-> lhs, rhs |-> rhs], Ok(MinMax_min(lhs, rhs)))

Vec2Max ==
    /\ pc = "idle"
    /\ \E ty \in Types :
        \E lhs \in MinMaxVec2s(ty), rhs \in MinMaxVec2s(ty) :
            Call("Vec2::max", [ty |-> ty, lhs |-> lhs, rhs |-> rhs], Vec2_max(ty, lhs, rhs))

Vec2Min ==
    /\ pc = "idle"
    /\ \E ty \in Types :
        \E lhs \in MinMaxVec2s(ty), rhs \in MinMaxVec2s(ty) :
            Call("Vec2::min", [ty |-> ty, lhs |-> lhs, rhs |-> rhs], Vec2_min(ty, lhs, rhs))

Vec3Max ==
    /\ pc = "idle"
    /\ \E ty \in Types :
        \E lhs \in MinMaxVec3s(ty), rhs \in MinMaxVec3s(ty) :
            Call("Vec3::max", [ty |-> ty, lhs |-> lhs, rhs |-> rhs], Vec3_max(ty, lhs, rhs))

Vec3Min ==
    /\ pc = "idle"
    /\ \E ty \in Types :
        \E lhs \in MinMaxVec3s(ty), rhs \in MinMaxVec3s(ty) :
            Call("Vec3::min", [ty |-> ty, lhs |-> lhs, rhs |-> rhs], Vec3_min(ty, lhs, rhs))

Vec4Max ==
    /\ pc = "idle"
    /\ \E ty \in Types :
        \E lhs \in MinMaxVec4s(ty), rhs \in MinMaxVec4s(ty) :
            Call("Vec4::max", [ty |-> ty, lhs |-> lhs, rhs |-> rhs], Vec4_max(ty, lhs, rhs))

Vec4Min ==
    /\ pc = "idle"
    /\ \E ty \in Types :
        \E lhs \in MinMaxVec4s(ty), rhs \in MinMaxVec4s(ty) :
            Call("Vec4::min", [ty |-> ty, lhs |-> lhs, rhs |-> rhs], Vec4_min(ty, lhs, rhs))

\* a op= b on a copy of a, and a op b, for op in + - * / and b a vector or a
\* scalar
VecOpAssign ==
    /\ pc = "idle"
    /\ \E ty \in Types, kind \in VecKinds, operator \in Operators :
        \E a \in OpVecs(kind, ty), b \in SampleVecs(kind, ty) :
            Call(kind \o "::op_assign",
                 [ty |-> ty, operator |-> operator, self |-> a, rhs |-> b],
                 Ok([assigned |-> Vec_op_assign(operator, ty, a, b, debug),
                     binary |-> Vec_op(operator, ty, a, b, debug)]))

VecOpAssignScalar ==
    /\ pc = "idle"
    /\ \E ty \in Types, kind \in VecKinds, operator \in Operators :
        \E a \in OpVecs(kind, ty), b \in Vals(ty) :
            Call(kind \o "::op_assign.scalar",
                 [ty |-> ty, operator |-> operator, self |-> a, rhs |-> b],
                 Ok([assigned |-> Vec_op_assign_scalar(operator, ty, a, b, debug),
                     binary |-> Vec_op_scalar(operator, ty, a, b, debug)]))

\* Vec2::<V>::up (), down (), right (), left () and the presets of Vec3 and
\* Vec4
VecPreset ==
    /\ pc = "idle"
    /\ \E ty \in Types, kind \in VecKinds :
        \E preset \in Presets(kind) :
            Call(kind \o "::preset", [ty |-> ty, preset |-> preset],
                 CASE kind = "Vec2" -> Vec2_preset(ty, preset)
                   [] kind = "Vec3" -> Vec3_preset(ty, preset)
                   [] kind = "Vec4" -> Vec4_preset(ty, preset))

\* Vec2::<V>::new (x, y), Vec3::<T>::new (x, y, x), Vec4::<V>::new (x, y, y, x)
\* with arguments of a type C
VecNew ==
    /\ pc = "idle"
    /\ \E ty \in Types, cty \in Types, kind \in VecKinds :
        \E x \in CastVals(cty), y \in CastVals(cty) :
            \E r \in {CASE kind = "Vec2" ->
                            [value |-> [x |-> x, y |-> y],
                             made |-> Vec2_new(ty, cty, Ok(x), Ok(y))]
                        [] kind = "Vec3" ->
                            [value |-> [x |-> x, y |-> y, z |-> x],
                             made |-> Vec3_new(ty, cty, Ok(x), Ok(y), Ok(x))]
                        [] kind = "Vec4" ->
                            [value |-> [x |-> x, y |-> y, z |-> y, w |-> x],
                             made |-> Vec4_new(ty, cty, Ok(x), Ok(y), Ok(y), Ok(x))]} :
                Call(kind \o "::new", [ty |-> ty, uty |-> cty, value |-> r.value], r.made)

\* Vec2::<V>::from (value), Vec3::<T>::from (value), Vec4::<V>::from (value)
VecFrom ==
    /\ pc = "idle"
    /\ \E ty \in Types, uty \in Types, kind \in VecKinds :
        \E value \in CastVals(uty) :
            Call(kind \o "::from", [ty |-> ty, uty |-> uty, value |-> value],
                 CASE kind = "Vec2" -> Vec2_from(ty, uty, value)
                   [] kind = "Vec3" -> Vec3_from(ty, uty, value)
                   [] kind = "Vec4" -> Vec4_from(ty, uty, value))

\* Mat3::<T>::new (..) and Mat4::<T>::new (..) with arguments of a type C:
\* every argument is fill but the one at position at, which is value
MatNewC ==
    /\ pc = "idle"
    /\ \E ty \in Types, cty \in Types, kind \in MatKinds :
        \E at \in 1 .. Size(kind) * Size(kind) :
            \E value \in CastVals(cty), fill \in {Lit(cty, 0), Lit(cty, 1)} :
                \E e \in {[k \in 1 .. Size(kind) * Size(kind) |->
                            IF k = at THEN value ELSE fill]} :
                    Call(kind \o "::new", [ty |-> ty, uty |-> cty, value |-> e],
                         CASE kind = "Mat3" -> Mat3_new_C(ty, cty, e)
                           [] kind = "Mat4" -> Mat4_new_C(ty, cty, e))

\* Mat3::<T>::from (value), Mat4::<T>::from (value) for a scalar value
MatFromC ==
    /\ pc = "idle"
    /\ \E ty \in Types, cty \in Types, kind \in MatKinds :
        \E value \in CastVals(cty) :
            Call(kind \o "::from", [ty |-> ty, uty |-> cty, value |-> value],
                 CASE kind = "Mat3" -> Mat3_from_C(ty, cty, value)
                   [] kind = "Mat4" -> Mat4_from_C(ty, cty, value))

\* Mat3::<T>::from (&v) for a Vec3 v, Mat4::<T>::from (&v) for a Vec4 v
MatFromVec ==
    /\ pc = "idle"
    /\ \E ty \in Types, cty \in Types, kind \in MatKinds :
        \E value \in SampleVecs(IF kind = "Mat3" THEN "Vec3" ELSE "Vec4", cty) :
            Call(IF kind = "Mat3" THEN "Mat3::from.Vec3" ELSE "Mat4::from.Vec4",
                 [ty |-> ty, uty |-> cty, value |-> value],
                 CASE kind = "Mat3" -> Mat3_from_Vec3(ty, cty, value)
                   [] kind = "Mat4" -> Mat4_from_Vec4(ty, cty, value))

\* RGBA::lerp (&start, &end, percentage) and Vec4::<f32>::lerp on the same
\* components; the same for lerp_unclamped
RgbaLerp ==
    /\ pc = "idle"
    /\ \E start \in Vec4s("f32"), end \in Vec4s("f32"), percentage \in Percentages :
        Call("RGBA::lerp",
             [start |-> RGBAOf(start), end |-> RGBAOf(end), percentage |-> percentage],
             Ok([rgba |-> RGBA_lerp(RGBAOf(start), RGBAOf(end), percentage, debug),
                 vec4 |-> Vec4_lerp("f32", start, end, percentage, debug)]))

RgbaLerpUnclamped ==
    /\ pc = "idle"
    /\ \E start \in Vec4s("f32"), end \in Vec4s("f32"), percentage \in Percentages :
        Call("RGBA::lerp_unclamped",
             [start |-> RGBAOf(start), end |-> RGBAOf(end), percentage |-> percentage],
             Ok([rgba |-> RGBA_lerp_unclamped(RGBAOf(start), RGBAOf(end), percentage, debug),
                 vec4 |-> Vec4_lerp_unclamped("f32", start, end, percentage, debug)]))

\* The client drops the result and is ready for the next call.
Return ==
    /\ pc = "returned"
    /\ pc' = "idle"
    /\ op' = "none"
    /\ args' = <<>>
    /\ out' = Ok(0)
    /\ UNCHANGED debug

Next ==
    \/ Mat3Mul
    \/ Mat4Mul
    \/ Mat3MulMul
    \/ Mat4MulMul
    \/ UtilClamp
    \/ ClampClamp
    \/ Vec2Clamp
    \/ Vec3Clamp
    \/ Vec4Clamp
    \/ UtilLerp
    \/ LerpLerp
    \/ LerpLerpUnclamped
    \/ Vec2Lerp
    \/ Vec2LerpUnclamped
    \/ Vec3Lerp
    \/ Vec4Lerp
    \/ Vec4LerpUnclamped
    \/ Vec3Cross
    \/ Vec3CrossDot
    \/ Vec2AddAdd
    \/ Vec3AddAdd
    \/ Vec4AddAdd
    \/ Vec2MulMul
    \/ Vec3MulMul
    \/ Vec4MulMul
    \/ Vec2Normalize
    \/ Vec3Normalize
    \/ Vec4Normalize
    \/ Vec2FromVec3
    \/ Vec2FromVec4
    \/ Vec3FromVec2
    \/ Vec3FromVec4
    \/ Vec4FromVec2
    \/ Vec4FromVec3
    \/ Vec2FromVec3FromVec2
    \/ Vec2FromVec4FromVec2
    \/ Vec3FromVec4FromVec3
    \/ Vec2Index
    \/ Vec3Index
    \/ Vec4Index
    \/ Vec2IndexMut
    \/ Vec3IndexMut
    \/ Vec4IndexMut
    \/ Mat3NewIndex
    \/ Mat4NewIndex
    \/ UtilMax
    \/ UtilMin
    \/ MinMaxMax
    \/ MinMaxMin
    \/ Vec2Max
    \/ Vec2Min
    \/ Vec3Max
    \/ Vec3Min
    \/ Vec4Max
    \/ Vec4Min
    \/ VecOpAssign
    \/ VecOpAssignScalar
    \/ VecPreset
    \/ VecNew
    \/ VecFrom
    \/ MatNewC
    \/ MatFromC
    \/ MatFromVec
    \/ RgbaLerp
    \/ RgbaLerpUnclamped
    \/ Return

Spec == Init /\ [][Next]_vars

(***************************************************************************)
(* A client that holds a vector or a matrix and a copy of it, and applies  *)
(* a sequence of operations to the copy. args holds its locals, the value  *)
(* it started from, the copy as it was before the last non-assigning       *)
(* operation, the values written through index_mut and whether a write     *)
(* replaced another value written before; a panic ends the client.         *)
(***************************************************************************)
Held(kind, ty, value) ==
    [kind |-> kind, ty |-> ty, initial |-> value, locals |-> LetCopy(value),
     previous |-> value, last |-> [p \in {} |-> 0], touched |-> FALSE,
     overwrote |-> FALSE, writes |-> 0]

HeldInit ==
    /\ debug \in BOOLEAN
    /\ pc = "held"
    /\ op = "copy"
    /\ out = Ok(0)
    /\ args \in UNION {{Held(kind, ty, v) : v \in HeldVecs(kind, ty)} :
                            kind \in VecKinds, ty \in Types}
                \cup UNION {{Held(kind, "signed", m) : m \in HeldMats(kind)} : kind \in MatKinds}

\* The client after an operation on its copy with outcome r (the new value
\* of the copy, or a panic).
AfterWrite(name, r, last, touched) ==
    /\ op' = name
    /\ UNCHANGED debug
    /\ IF r.panic
       THEN /\ pc' = "failed"
            /\ out' = Panic
            /\ UNCHANGED args
       ELSE /\ pc' = "held"
            /\ out' = Ok(0)
            /\ args' = [args EXCEPT !.locals = Assign(@, "copy", r.val),
                                    !.previous = r.val,
                                    !.last = last,
                                    !.overwrote =
                                        @ \/ \E p \in DOMAIN args.last :
                                                last[p] # args.last[p],
                                    !.touched = touched,
                                    !.writes = @ + 1]

\* The client after a non-assigning operation with outcome r.
AfterRead(name, r) ==
    /\ op' = name
    /\ UNCHANGED debug
    /\ pc' = IF r.panic THEN "failed" ELSE "held"
    /\ out' = r
    /\ args' = [args EXCEPT !.previous = args.locals.copy]

\* last with value written at position p
Written(last, p, value) ==
    [q \in DOMAIN last \cup {p} |-> IF q = p THEN value ELSE last[q]]

\* copy[index] = value
HeldIndexMut ==
    /\ pc = "held"
    /\ args.kind \in VecKinds
    /\ args.writes < MaxWrites
    /\ \E index \in HeldIndices(args.kind), value \in HeldVals(args.ty) :
        AfterWrite("index_mut",
                   IndexMut(args.kind, args.locals.copy, index, value),
                   Written(args.last, index, value), args.touched)

\* copy op= original
HeldOpAssign ==
    /\ pc = "held"
    /\ args.kind \in VecKinds
    /\ args.writes < MaxWrites
    /\ \E operator \in Operators :
        AfterWrite("op_assign",
                   Vec_op_assign(operator, args.ty, args.locals.copy,
                                 args.locals.original, debug),
                   args.last, TRUE)

\* copy op original
HeldBinary ==
    /\ pc = "held"
    /\ args.kind \in VecKinds
    /\ \E operator \in Operators :
        AfterRead("binary",
                  Vec_op(operator, args.ty, args.locals.copy, args.locals.original,
                         debug))

\* copy[index][col] = value for a matrix
HeldMatIndexMut ==
    /\ pc = "held"
    /\ args.kind \in MatKinds
    /\ args.writes < MaxWrites
    /\ \E index \in HeldRows(args.kind), col \in HeldIndices(args.kind) :
        \E value \in HeldVals(args.ty) :
            AfterWrite("index_mut",
                       MatIndexMut(args.kind, args.locals.copy, index, col, value),
                       Written(args.last, <<index, col>>, value), args.touched)

\* copy * original and original * copy for matrices
HeldMatMul ==
    /\ pc = "held"
    /\ args.kind \in MatKinds
    /\ \E swap \in BOOLEAN :
        AfterRead("mul",
                  Ok(IF swap THEN MatMul(args.kind, args.locals.original, args.locals.copy)
                     ELSE MatMul(args.kind, args.locals.copy, args.locals.original)))

HeldNext ==
    \/ HeldIndexMut
    \/ HeldOpAssign
    \/ HeldBinary
    \/ HeldMatIndexMut
    \/ HeldMatMul

HeldSpec == HeldInit /\ [][HeldNext]_vars

(***************************************************************************)
(* Properties.                                                             *)
(***************************************************************************)
Returned(name) == pc = "returned" /\ op = name

Elem3(m, i, j) == Vec3_index(Mat3_index(m, i).val, j).val

Elem4(m, i, j) == Vec4_index(Mat4_index(m, i).val, j).val

\* The sum of f[i] over the i in S.
RECURSIVE SumOver(_, _)
SumOver(f, S) ==
    IF S = {} THEN 0
    ELSE LET i == CHOOSE j \in S : TRUE IN f[i] + SumOver(f, S \ {i})

\* C1: every element of R = A * B, for Mat3 and for Mat4, is the sum over
\* inner in 0..N-1 of A[row][inner] * B[inner][col], for all row, col in
\* 0..N-1.
C1_MulElements ==
    /\ Returned("Mat3::mul") =>
        \A row \in 0 .. 2, col \in 0 .. 2 :
            Elem3(out.val, row, col)
                = SumOver([inner \in 0 .. 2 |->
                      Elem3(args.self, row, inner) * Elem3(args.rhs, inner, col)],
                      0 .. 2)
    /\ Returned("Mat4::mul") =>
        \A row \in 0 .. 3, col \in 0 .. 3 :
            Elem4(out.val, row, col)
                = SumOver([inner \in 0 .. 3 |->
                      Elem4(args.self, row, inner) * Elem4(args.rhs, inner, col)],
                      0 .. 3)

\* A 4x4 product whose last row and column take part with nonzero elements.
C1_Witness ==
    /\ Returned("Mat4::mul")
    /\ Elem4(args.self, 3, 3) # 0
    /\ Elem4(args.rhs, 3, 3) # 0
    /\ Elem4(out.val, 3, 3) # 0
    /\ Elem4(out.val, 3, 3) # Elem4(args.self, 3, 3) * Elem4(args.rhs, 3, 3)

\* C2: identity () * M = M and M * identity () = M, for Mat3 and for Mat4.
C2_IdentityLaw ==
    /\ (Returned("Mat3::mul") /\ args.self = Mat3_identity("signed"))
        => out.val = args.rhs
    /\ (Returned("Mat3::mul") /\ args.rhs = Mat3_identity("signed"))
        => out.val = args.self
    /\ (Returned("Mat4::mul") /\ args.self = Mat4_identity("signed"))
        => out.val = args.rhs
    /\ (Returned("Mat4::mul") /\ args.rhs = Mat4_identity("signed"))
        => out.val = args.self

\* Mat3::identity () * M for an M that is neither the identity nor zero, with
\* elements off the diagonal.
C2_Witness ==
    /\ Returned("Mat3::mul")
    /\ args.self = Mat3_identity("signed")
    /\ args.rhs # Mat3_identity("signed")
    /\ Elem3(args.rhs, 0, 2) # 0
    /\ Elem3(args.rhs, 2, 0) # 0
    /\ out.val = args.rhs

\* C3: (A * B) * C = A * (B * C) element for element, for Mat3 and for Mat4
\* (integer elements, no overflow).
C3_MulAssociative ==
    (Returned("Mat3::mul.mul") \/ Returned("Mat4::mul.mul"))
        => out.val.left = out.val.right

\* Three different matrices, none the identity, whose product is not zero
\* and where A * B differs from B * A.
C3_Witness ==
    /\ Returned("Mat4::mul.mul")
    /\ args.a # args.b /\ args.b # args.c /\ args.a # args.c
    /\ Mat4_identity("signed") \notin {args.a, args.b, args.c}
    /\ out.val.left # Mat4_from("signed", 0)
    /\ Mat4_mul(args.a, args.b) # Mat4_mul(args.b, args.a)


LerpOps == {"util::lerp", "Lerp::lerp", "Vec2::lerp", "Vec3::lerp", "Vec4::lerp"}

ClampOps == {"util::clamp", "Clamp::clamp"}

VecClampOps == {"Vec2::clamp", "Vec3::clamp", "Vec4::clamp"}

\* The names of the components of a vector.
Components(v) == DOMAIN v

\* The clamped lerp called name, on other arguments.
LerpOf(name, ty, start, end, percentage, dbg) ==
    CASE name = "util::lerp" -> util_lerp(ty, start, end, percentage, dbg)
      [] name = "Lerp::lerp" -> Lerp_lerp(ty, start, end, percentage, dbg)
      [] name = "Vec2::lerp" -> Vec2_lerp(ty, start, end, percentage, dbg)
      [] name = "Vec3::lerp" -> Vec3_lerp(ty, start, end, percentage, dbg)
      [] name = "Vec4::lerp" -> Vec4_lerp(ty, start, end, percentage, dbg)

\* C4: lerp (start, end, 0.0) returns exactly start, for util::lerp, the
\* scalar Lerp::lerp and the lerp of Vec2, Vec3 and Vec4.
C4_LerpAtZero ==
    (pc = "returned" /\ op \in LerpOps /\ args.percentage = Lit("f32", 0))
        => out = Ok(args.start)

\* C5: lerp (start, end, 1.0) returns exactly end, for util::lerp, the scalar
\* Lerp::lerp and the lerp of Vec2, Vec3 and Vec4.
C5_LerpAtOne ==
    (pc = "returned" /\ op \in LerpOps /\ args.percentage = Lit("f32", 1))
        => out = Ok(args.end)

\* C6: the clamped lerp clamps the percentage to [0, 1]: for t < 0 the outcome
\* is that of lerp (start, end, 0), for t > 1 that of lerp (start, end, 1).
C6_LerpClampsPercentage ==
    (pc = "returned" /\ op \in LerpOps) =>
        /\ args.percentage < Lit("f32", 0)
            => out = LerpOf(op, args.ty, args.start, args.end, Lit("f32", 0), debug)
        /\ args.percentage > Lit("f32", 1)
            => out = LerpOf(op, args.ty, args.start, args.end, Lit("f32", 1), debug)

\* A Vec4 lerp with a percentage above 1 that returns a vector, not zero.
C6_Witness ==
    /\ Returned("Vec4::lerp")
    /\ args.percentage > Lit("f32", 1)
    /\ ~out.panic
    /\ out.val.x # 0 /\ out.val.w # 0

\* start + (end - start) * t, computed in f32 and cast back to T.
InterpolationOf(ty, start, end, percentage) ==
    LET s == Cast("f32", ty, start).val
        e == Cast("f32", ty, end).val
    IN  Cast(ty, "f32", s + F32_mul(e - s, percentage))

\* C7: the scalar lerp_unclamped (start, end, t) is start + (end - start) * t
\* for every t, also t < 0 and t > 1; at t = 1/2 the midpoint.
C7_LerpUnclampedInterpolates ==
    Returned("Lerp::lerp_unclamped")
        => out = InterpolationOf(args.ty, args.start, args.end, args.percentage)

\* C8: Vec2::lerp_unclamped and Vec4::lerp_unclamped apply t verbatim: for t
\* outside [0, 1] every component of the result is the scalar lerp_unclamped
\* of the components of start and end with that same t.
C8_VecLerpUnclampedVerbatim ==
    (/\ pc = "returned"
     /\ op \in {"Vec2::lerp_unclamped", "Vec4::lerp_unclamped"}
     /\ (args.percentage < Lit("f32", 0) \/ args.percentage > Lit("f32", 1)))
        => LET scalar(c) == Lerp_lerp_unclamped(args.ty, args.start[c], args.end[c],
                                                args.percentage, debug)
           IN  /\ out.panic <=> \E c \in Components(args.start) : scalar(c).panic
               /\ ~out.panic =>
                    \A c \in Components(args.start) : scalar(c) = Ok(out.val[c])

\* r is min if value < min, max if value > max, value otherwise, and so lies
\* in [min, max].
Clamped(value, min, max, r) ==
    /\ min <= r /\ r <= max
    /\ value < min => r = min
    /\ value > max => r = max
    /\ (min <= value /\ value <= max) => r = value

\* C9: for min < max, clamp (value, min, max) is min if value < min, max if
\* value > max and value otherwise, so it lies in [min, max]; for Vec2, Vec3
\* and Vec4 the same holds of every component.
C9_ClampResult ==
    /\ (pc = "returned" /\ op \in ClampOps /\ args.min < args.max)
        => /\ ~out.panic
           /\ Clamped(args.value, args.min, args.max, out.val)
    /\ (/\ pc = "returned" /\ op \in VecClampOps
        /\ \A c \in Components(args.value) : args.min[c] < args.max[c])
        => /\ ~out.panic
           /\ Components(out.val) = Components(args.value)
           /\ \A c \in Components(args.value) :
                Clamped(args.value[c], args.min[c], args.max[c], out.val[c])

\* util::clamp (15, 0, 10) is 10.
C9_Witness ==
    /\ Returned("util::clamp")
    /\ args.ty = "signed"
    /\ args.value = 15 /\ args.min = 0 /\ args.max = 10
    /\ out = Ok(10)

\* C10: in a debug build clamp with min > max panics; the clamp of a vector
\* does as soon as one component has min > max, whatever the others are.
C10_ClampAssertsOrder ==
    (pc = "returned" /\ debug) =>
        /\ (op \in ClampOps /\ args.min > args.max) => out = Panic
        /\ (op \in VecClampOps
            /\ \E c \in Components(args.value) : args.min[c] > args.max[c])
                => out = Panic

\* A Vec4 clamp in a debug build where only the w components are out of
\* order.
C10_Witness ==
    /\ Returned("Vec4::clamp")
    /\ debug
    /\ args.min.x < args.max.x /\ args.min.y < args.max.y
    /\ args.min.z < args.max.z /\ args.min.w > args.max.w
    /\ out = Panic

\* (y1*z2 - z1*y2, z1*x2 - x1*z2, x1*y2 - y1*x2) for a = (x1, y1, z1) and
\* b = (x2, y2, z2), with the products of T.
CrossOf(ty, a, b) ==
    LET prod(p, q) == IF ty = "f32" THEN F32_mul(p, q) ELSE p * q
    IN  [x |-> prod(a.y, b.z) - prod(a.z, b.y),
         y |-> prod(a.z, b.x) - prod(a.x, b.z),
         z |-> prod(a.x, b.y) - prod(a.y, b.x)]

\* C11: a.cross (b) is (a.y*b.z - a.z*b.y, a.z*b.x - a.x*b.z,
\* a.x*b.y - a.y*b.x) for all Vec3 a, b for which T has these values.
C11_CrossComponents ==
    (/\ Returned("Vec3::cross")
     /\ \A c \in {"x", "y", "z"} :
            InRange(args.ty, CrossOf(args.ty, args.self, args.rhs)[c]))
        => out = Ok(CrossOf(args.ty, args.self, args.rhs))

\* Vec3 (1, 0, 0).cross (Vec3 (0, 1, 0)) is Vec3 (0, 0, 1), for unsigned T.
C11_Witness ==
    /\ Returned("Vec3::cross")
    /\ args.ty = "unsigned"
    /\ args.self = [x |-> 1, y |-> 0, z |-> 0]
    /\ args.rhs = [x |-> 0, y |-> 1, z |-> 0]
    /\ out = Ok([x |-> 0, y |-> 0, z |-> 1])

\* C12: for Vec3 a, b over signed integers without overflow,
\* a.dot (a.cross (b)) and b.dot (a.cross (b)) are 0.
C12_CrossOrthogonal ==
    (Returned("Vec3::cross.dot") /\ args.ty = "signed")
        => /\ ~out.panic
           /\ out.val.self_dot = Ok(0)
           /\ out.val.rhs_dot = Ok(0)

\* A cross product of two signed vectors with no zero component.
C12_Witness ==
    /\ Returned("Vec3::cross.dot")
    /\ args.ty = "signed"
    /\ ~out.panic
    /\ out.val.cross.x # 0 /\ out.val.cross.y # 0 /\ out.val.cross.z # 0
    /\ out.val.self_dot = Ok(0)

VecAddOps == {"Vec2::add.add", "Vec3::add.add", "Vec4::add.add"}

VecMulOps == {"Vec2::mul.mul", "Vec3::mul.mul", "Vec4::mul.mul"}

\* C13: for vectors a, b of the same dimension and scalar type, a + b is
\* b + a and the component-wise a * b is b * a.
C13_AddMulCommute ==
    (pc = "returned" /\ op \in VecAddOps \cup VecMulOps)
        => out.val.left = out.val.right

\* A product of two different Vec3 that is a vector different from both.
C13_Witness ==
    /\ Returned("Vec3::mul.mul")
    /\ args.a # args.b
    /\ ~out.val.left.panic
    /\ out.val.left.val # args.a /\ out.val.left.val # args.b
    /\ out.val.left.val.z # 0

\* The sum of the squares of the components of an f32 vector is zero.
ZeroLength(v) ==
    \A c \in Components(v) : F32_mul(v[c], v[c]) = 0

\* C14: normalize () of a vector of length exactly zero returns the zero
\* vector of the same dimension: no panic, no NaN and no infinity.
C14_NormalizeZeroLength ==
    (/\ pc = "returned"
     /\ op \in {"Vec2::normalize", "Vec3::normalize", "Vec4::normalize"}
     /\ ZeroLength(args.self))
        => /\ ~out.panic
           /\ Components(out.val) = Components(args.self)
           /\ \A c \in Components(args.self) : out.val[c] = Lit("f32", 0)

\* Vec4::zero ().normalize () is the zero vector.
C14_Witness ==
    /\ Returned("Vec4::normalize")
    /\ args.self = [x |-> 0, y |-> 0, z |-> 0, w |-> 0]
    /\ out = Ok([x |-> 0, y |-> 0, z |-> 0, w |-> 0])

\* The components of the vector a conversion returns.
TargetComponents(name) ==
    CASE name \in {"Vec2::from.Vec3", "Vec2::from.Vec4"} -> {"x", "y"}
      [] name \in {"Vec3::from.Vec2", "Vec3::from.Vec4"} -> {"x", "y", "z"}
      [] name \in {"Vec4::from.Vec2", "Vec4::from.Vec3"} -> {"x", "y", "z", "w"}

ConversionOps ==
    {"Vec2::from.Vec3", "Vec2::from.Vec4", "Vec3::from.Vec2", "Vec3::from.Vec4",
     "Vec4::from.Vec2", "Vec4::from.Vec3"}

\* C15: a conversion to another dimension copies the components that source
\* and target both have (x, y and, from Vec3 to Vec4 and back, z), sets the
\* components only the target has (z, w) to zero and drops the others.
C15_ConversionTable ==
    (/\ pc = "returned" /\ op \in ConversionOps
     /\ \A c \in TargetComponents(op) \cap Components(args.value) :
            ~Cast(args.ty, args.uty, args.value[c]).panic)
        => /\ ~out.panic
           /\ Components(out.val) = TargetComponents(op)
           /\ \A c \in TargetComponents(op) :
                out.val[c] = IF c \in Components(args.value)
                             THEN Cast(args.ty, args.uty, args.value[c]).val
                             ELSE Lit(args.ty, 0)

\* A Vec4 made from a Vec3 of three different non-zero components.
C15_Witness ==
    /\ Returned("Vec4::from.Vec3")
    /\ args.ty = args.uty
    /\ args.value.x # 0 /\ args.value.y # 0 /\ args.value.z # 0
    /\ args.value.x # args.value.y /\ args.value.y # args.value.z
    /\ out = Ok([x |-> args.value.x, y |-> args.value.y, z |-> args.value.z, w |-> 0])

RoundTripOps ==
    {"Vec2::from.Vec3::from.Vec2", "Vec2::from.Vec4::from.Vec2",
     "Vec3::from.Vec4::from.Vec3"}

\* C16: widening and then narrowing is the identity: Vec2 -> Vec3 -> Vec2,
\* Vec2 -> Vec4 -> Vec2 and Vec3 -> Vec4 -> Vec3 return the vector they
\* started from (one scalar type throughout).
C16_WidenNarrowIdentity ==
    (pc = "returned" /\ op \in RoundTripOps) => out = Ok(args.value)

\* A Vec3 of three different components is back after Vec3 -> Vec4 -> Vec3.
C16_Witness ==
    /\ Returned("Vec3::from.Vec4::from.Vec3")
    /\ args.value.x # args.value.y /\ args.value.y # args.value.z
    /\ args.value.z # 0
    /\ out = Ok(args.value)

\* The component at position i, in the order x = 0, y = 1, z = 2, w = 3.
ComponentAt(i) == <<"x", "y", "z", "w">>[i + 1]

Dimension(v) == Cardinality(Components(v))

\* C17: indexing a vector with i below its dimension returns component i in
\* the order x, y, z, w, and a write through IndexMut changes that same
\* component and no other; every index from the dimension on panics.
C17_VectorIndex ==
    /\ (pc = "returned" /\ op \in {"Vec2::index", "Vec3::index", "Vec4::index"})
        => IF args.index < Dimension(args.self)
           THEN out = Ok(args.self[ComponentAt(args.index)])
           ELSE out = Panic
    /\ (pc = "returned"
        /\ op \in {"Vec2::index_mut", "Vec3::index_mut", "Vec4::index_mut"})
        => IF args.index < Dimension(args.self)
           THEN out = Ok([args.self EXCEPT ![ComponentAt(args.index)] = args.value])
           ELSE out = Panic

\* Index 3 of a Vec3 panics.
C17_Witness ==
    /\ Returned("Vec3::index")
    /\ args.index = 3
    /\ out = Panic

\* The order of the matrix an operation builds.
Order(name) == IF name = "Mat3::new.index" THEN 3 ELSE 4

\* C18: a matrix built by new () from N*N scalars is row-major: m[i] is the
\* vector of the arguments at positions i*N .. i*N + N-1 and m[i][j] is the
\* argument at position i*N + j, for i, j in 0..N-1; a row index from N on
\* panics.
C18_RowMajor ==
    (pc = "returned" /\ op \in {"Mat3::new.index", "Mat4::new.index"}) =>
        LET N == Order(op)
        IN  IF args.row < N
            THEN /\ ~out.panic
                 /\ Dimension(out.val.row) = N
                 /\ \A j \in 0 .. N - 1 :
                        out.val.row[ComponentAt(j)] = args.new[args.row * N + j + 1]
                 /\ args.col < N
                        => out.val.elem = Ok(args.new[args.row * N + args.col + 1])
            ELSE out = Panic

\* m[3][0] of a Mat4 is the thirteenth argument of new ().
C18_Witness ==
    /\ Returned("Mat4::new.index")
    /\ args.row = 3 /\ args.col = 0
    /\ out.val.elem = Ok(args.new[13])
    /\ args.new[13] # args.new[4]

MaxOps == {"util::max", "MinMax::max"}

MinOps == {"util::min", "MinMax::min"}

VecMaxOps == {"Vec2::max", "Vec3::max", "Vec4::max"}

VecMinOps == {"Vec2::min", "Vec3::min", "Vec4::min"}

\* r is one of lhs, rhs and not less than either.
IsMax(lhs, rhs, r) ==
    /\ r \in {lhs, rhs}
    /\ T_num(r) >= T_num(lhs) /\ T_num(r) >= T_num(rhs)

\* r is one of lhs, rhs and not greater than either.
IsMin(lhs, rhs, r) ==
    /\ r \in {lhs, rhs}
    /\ T_num(r) <= T_num(lhs) /\ T_num(r) <= T_num(rhs)

\* C19: max (lhs, rhs) is one of its arguments and >= both, min (lhs, rhs) is
\* one of its arguments and <= both; the max and min of Vec2, Vec3 and Vec4
\* are so in every component.
C19_MinMaxSelect ==
    /\ (pc = "returned" /\ op \in MaxOps) => IsMax(args.lhs, args.rhs, out.val)
    /\ (pc = "returned" /\ op \in MinOps) => IsMin(args.lhs, args.rhs, out.val)
    /\ (pc = "returned" /\ op \in VecMaxOps)
        => /\ ~out.panic
           /\ Components(out.val) = Components(args.lhs)
           /\ \A c \in Components(args.lhs) :
                IsMax(args.lhs[c], args.rhs[c], out.val[c])
    /\ (pc = "returned" /\ op \in VecMinOps)
        => /\ ~out.panic
           /\ Components(out.val) = Components(args.lhs)
           /\ \A c \in Components(args.lhs) :
                IsMin(args.lhs[c], args.rhs[c], out.val[c])

\* A Vec4 max that takes components from both arguments.
C19_Witness ==
    /\ Returned("Vec4::max")
    /\ ~out.panic
    /\ out.val # args.lhs /\ out.val # args.rhs
    /\ out.val.x = args.lhs.x /\ out.val.w = args.rhs.w

\* C20 as stated: when lhs == rhs, max (lhs, rhs) returns the rhs argument
\* and min (lhs, rhs) returns the lhs argument (for vectors, in every
\* component where lhs == rhs). Violated by min (0.0, -0.0) = -0.0.
C20_TieBreak ==
    /\ (pc = "returned" /\ op \in MaxOps /\ T_num(args.lhs) = T_num(args.rhs))
        => out = Ok(args.rhs)
    /\ (pc = "returned" /\ op \in MinOps /\ T_num(args.lhs) = T_num(args.rhs))
        => out = Ok(args.lhs)
    /\ (pc = "returned" /\ op \in VecMaxOps) =>
        \A c \in Components(args.lhs) :
            T_num(args.lhs[c]) = T_num(args.rhs[c]) => out.val[c] = args.rhs[c]
    /\ (pc = "returned" /\ op \in VecMinOps) =>
        \A c \in Components(args.lhs) :
            T_num(args.lhs[c]) = T_num(args.rhs[c]) => out.val[c] = args.lhs[c]

\* C20, amended: when lhs == rhs, max (lhs, rhs) and min (lhs, rhs) both
\* return the rhs argument (for vectors, in every component where
\* lhs == rhs).
C20_TieBreakRhs ==
    /\ (pc = "returned" /\ op \in MaxOps \cup MinOps
            /\ T_num(args.lhs) = T_num(args.rhs))
        => out = Ok(args.rhs)
    /\ (pc = "returned" /\ op \in VecMaxOps \cup VecMinOps) =>
        \A c \in Components(args.lhs) :
            T_num(args.lhs[c]) = T_num(args.rhs[c]) => out.val[c] = args.rhs[c]

\* util::min of 0.0 and -0.0, two equal values that differ in the sign bit.
C20_Witness ==
    /\ Returned("util::min")
    /\ args.lhs = 0 /\ args.rhs = F32_NegZero
    /\ out = Ok(F32_NegZero)

OpAssignOps == {"Vec2::op_assign", "Vec3::op_assign", "Vec4::op_assign"}

OpAssignScalarOps ==
    {"Vec2::op_assign.scalar", "Vec3::op_assign.scalar", "Vec4::op_assign.scalar"}

\* The right operand of a division holds a zero: the scalar, or a component.
ZeroDivisor ==
    \/ op \in OpAssignScalarOps /\ args.rhs = 0
    \/ op \in OpAssignOps /\ \E c \in Components(args.rhs) : args.rhs[c] = 0

\* C21: for an integer scalar type, v / s with s = 0, v / w with a component
\* of w equal to 0, and the same with /=, panic: no vector is returned and
\* none is assigned.
C21_IntegerDivisionByZero ==
    (pc = "returned" /\ op \in OpAssignOps \cup OpAssignScalarOps
        /\ args.operator = "div" /\ args.ty \in IntTypes /\ ZeroDivisor)
        => out.val.binary = Panic /\ out.val.assigned = Panic

\* An unsigned Vec3 divided by a Vec3 whose last component only is zero.
C21_Witness ==
    /\ Returned("Vec3::op_assign")
    /\ args.operator = "div" /\ args.ty = "unsigned"
    /\ args.rhs.x # 0 /\ args.rhs.y # 0 /\ args.rhs.z = 0
    /\ out.val.binary = Panic /\ out.val.assigned = Panic

\* a op b of T for the operator called operator.
ScalarOp(operator, ty, a, b, dbg) ==
    CASE operator = "add" -> T_add(ty, a, b, dbg)
      [] operator = "sub" -> T_sub(ty, a, b, dbg)
      [] operator = "mul" -> T_mul(ty, a, b, dbg)
      [] operator = "div" -> T_div(ty, a, b)

\* What component c of the left operand is combined with.
RhsAt(c) == IF op \in OpAssignScalarOps THEN args.rhs ELSE args.rhs[c]

\* C24: for op in + - * / and b a vector or a scalar, a op= b leaves in a the
\* value a op b returns (or both panic), and that value is, component by
\* component, a.c op b.c (a.c op b for a scalar).
C24_InPlaceAgrees ==
    (pc = "returned" /\ op \in OpAssignOps \cup OpAssignScalarOps)
        => /\ out.val.assigned = out.val.binary
           /\ ~out.val.binary.panic =>
                /\ Components(out.val.binary.val) = Components(args.self)
                /\ \A c \in Components(args.self) :
                    Ok(out.val.binary.val[c])
                        = ScalarOp(args.operator, args.ty, args.self[c], RhsAt(c), debug)

\* A Vec4 multiplied in place by a vector, with a new last component.
C24_Witness ==
    /\ Returned("Vec4::op_assign")
    /\ args.operator = "mul"
    /\ ~out.val.assigned.panic
    /\ out.val.assigned = out.val.binary
    /\ out.val.assigned.val.w # args.self.w
    /\ out.val.assigned.val.x # args.self.x

\* A value x of type cty is representable in ty when ty is f32 or x, without
\* its fraction, lies in the range of ty; Converted is the value it becomes.
Whole(cty, x) == IF cty = "f32" THEN TruncDiv(x, TDen) ELSE x

Representable(ty, cty, x) ==
    ty = "f32" \/ (IntMin(ty) <= Whole(cty, x) /\ Whole(cty, x) <= IntMax(ty))

Converted(ty, cty, x) ==
    IF ty # "f32" THEN Whole(cty, x) ELSE IF cty = "f32" THEN x ELSE x * TDen

Position(c) == CASE c = "x" -> 1 [] c = "y" -> 2 [] c = "z" -> 3 [] c = "w" -> 4

NegativePresets == {"down", "left", "back"}

\* new of a vector: one cast per argument.
NewOfVector ==
    (pc = "returned" /\ op \in {"Vec2::new", "Vec3::new", "Vec4::new"})
        => IF \E c \in Components(args.value) :
                ~Representable(args.ty, args.uty, args.value[c])
           THEN out = Panic
           ELSE /\ ~out.panic
                /\ Components(out.val) = Components(args.value)
                /\ \A c \in Components(args.value) :
                    out.val[c] = Converted(args.ty, args.uty, args.value[c])

\* from of a scalar: the scalar is cast for every component.
FromOfScalar ==
    (pc = "returned" /\ op \in {"Vec2::from", "Vec3::from", "Vec4::from"})
        => IF ~Representable(args.ty, args.uty, args.value)
           THEN out = Panic
           ELSE /\ ~out.panic
                /\ Cardinality(Components(out.val)) =
                    (CASE op = "Vec2::from" -> 2 [] op = "Vec3::from" -> 3
                       [] op = "Vec4::from" -> 4)
                /\ \A c \in Components(out.val) :
                    out.val[c] = Converted(args.ty, args.uty, args.value)

\* from of a vector of another dimension: the components that are copied
\* are cast.
FromOfVector ==
    (pc = "returned" /\ op \in ConversionOps)
        => IF \E c \in TargetComponents(op) \cap Components(args.value) :
                ~Representable(args.ty, args.uty, args.value[c])
           THEN out = Panic
           ELSE /\ ~out.panic
                /\ \A c \in TargetComponents(op) \cap Components(args.value) :
                    out.val[c] = Converted(args.ty, args.uty, args.value[c])

\* A preset fails exactly when it holds -1 and the scalar type is unsigned;
\* a preset that holds -1 has it in one component.
PresetOfVector ==
    (pc = "returned" /\ op \in {"Vec2::preset", "Vec3::preset", "Vec4::preset"})
        => IF args.preset \in NegativePresets /\ args.ty = "unsigned"
           THEN out = Panic
           ELSE /\ ~out.panic
                /\ args.preset \in NegativePresets
                    => \E c \in Components(out.val) : out.val[c] = Lit(args.ty, -1)

\* new of a matrix: the arguments are cast row by row.
NewOfMatrix ==
    (pc = "returned" /\ op \in {"Mat3::new", "Mat4::new"})
        => LET n == IF op = "Mat3::new" THEN 3 ELSE 4
           IN  IF \E k \in 1 .. n * n : ~Representable(args.ty, args.uty, args.value[k])
               THEN out = Panic
               ELSE /\ ~out.panic
                    /\ DOMAIN out.val.array = 0 .. n - 1
                    /\ \A i \in 0 .. n - 1 :
                        /\ Cardinality(Components(out.val.array[i])) = n
                        /\ \A c \in Components(out.val.array[i]) :
                            out.val.array[i][c] =
                                Converted(args.ty, args.uty,
                                          args.value[n * i + Position(c)])

\* from of a scalar or of a vector for a matrix: every row is the cast
\* scalar in every component, or the cast vector.
FromOfMatrix ==
    (pc = "returned"
     /\ op \in {"Mat3::from", "Mat4::from", "Mat3::from.Vec3", "Mat4::from.Vec4"})
        => LET n == IF op \in {"Mat3::from", "Mat3::from.Vec3"} THEN 3 ELSE 4
               scalar == op \in {"Mat3::from", "Mat4::from"}
               names == {c \in {"x", "y", "z", "w"} : Position(c) <= n}
               input(c) == IF scalar THEN args.value ELSE args.value[c]
           IN  IF \E c \in names : ~Representable(args.ty, args.uty, input(c))
               THEN out = Panic
               ELSE /\ ~out.panic
                    /\ DOMAIN out.val.array = 0 .. n - 1
                    /\ \A i \in 0 .. n - 1 :
                        /\ Components(out.val.array[i]) = names
                        /\ \A c \in names :
                            out.val.array[i][c] = Converted(args.ty, args.uty, input(c))

\* C22: a constructor of a vector or a matrix (new, from of a scalar, from
\* of a vector, a preset) panics when one of the values it casts is not
\* representable in the target scalar type, as -1 is for the down, left and
\* back presets of an unsigned type, and otherwise returns the value whose
\* components are the cast inputs.
C22_ConstructorCasts ==
    /\ NewOfVector
    /\ FromOfScalar
    /\ FromOfVector
    /\ PresetOfVector
    /\ NewOfMatrix
    /\ FromOfMatrix

\* Vec3::<u32>::back () panics.
C22_Witness ==
    /\ Returned("Vec3::preset")
    /\ args.ty = "unsigned" /\ args.preset = "back"
    /\ out = Panic

\* C27 as stated: Vec2::right () returns (0, 1) and Vec4::right () returns
\* (0, 1, 0, 0), the values their doc comments give.
C27_RightAsDocumented ==
    /\ (Returned("Vec2::preset") /\ args.preset = "right")
        => out = Ok([x |-> Lit(args.ty, 0), y |-> Lit(args.ty, 1)])
    /\ (Returned("Vec4::preset") /\ args.preset = "right")
        => out = Ok([x |-> Lit(args.ty, 0), y |-> Lit(args.ty, 1),
                     z |-> Lit(args.ty, 0), w |-> Lit(args.ty, 0)])

\* C26 as stated: for an unsigned scalar with end < start, lerp (and
\* lerp_unclamped with a percentage in [0, 1]) returns a value: the
\* difference end - start is not taken in the integer type, so no underflow
\* stops the call.
C26_LerpDownwardReturns ==
    (/\ pc = "returned"
     /\ \/ op \in {"util::lerp", "Lerp::lerp"}
        \/ /\ op = "Lerp::lerp_unclamped"
           /\ Lit("f32", 0) <= args.percentage /\ args.percentage <= Lit("f32", 1)
     /\ args.ty = "unsigned"
     /\ args.end < args.start)
        => ~out.panic

\* C25: the lerp of Vec2, Vec3 and Vec4 is component-wise with one shared
\* percentage: for a percentage in [0, 1] every component of the result is
\* the scalar lerp of that component of start and end, and the vector lerp
\* fails exactly when the scalar lerp of one component does.
C25_VecLerpComponentWise ==
    (/\ pc = "returned"
     /\ op \in {"Vec2::lerp", "Vec3::lerp", "Vec4::lerp"}
     /\ Lit("f32", 0) <= args.percentage /\ args.percentage <= Lit("f32", 1))
        => LET scalar(c) == Lerp_lerp(args.ty, args.start[c], args.end[c],
                                      args.percentage, debug)
           IN  IF \E c \in Components(args.start) : scalar(c).panic
               THEN out = Panic
               ELSE out = Ok([c \in Components(args.start) |-> scalar(c).val])

\* A Vec3 lerp at one half between different vectors that returns a vector
\* with different components.
C25_Witness ==
    /\ Returned("Vec3::lerp")
    /\ 2 * args.percentage = Lit("f32", 1)
    /\ args.start # args.end
    /\ ~out.panic
    /\ out.val.x # out.val.y /\ out.val.y # out.val.z

C30_RgbaLerpAsVec4 ==
    (pc = "returned" /\ op \in {"RGBA::lerp", "RGBA::lerp_unclamped"})
        => /\ ~out.val.rgba.panic /\ ~out.val.vec4.panic
           /\ out.val.rgba.val = RGBAOf(out.val.vec4.val)

Positions(kind) ==
    IF kind \in VecKinds THEN 0 .. Size(kind) - 1
    ELSE (0 .. Size(kind) - 1) \X (0 .. Size(kind) - 1)

At(kind, value, p) ==
    IF kind \in VecKinds THEN Index(kind, value, p) ELSE MatIndex(kind, value, p[1], p[2])

\* C28: after any sequence of in-range writes through index_mut, index
\* returns at every position the last value written there, or the initial
\* value where nothing was written, and the vector has N components, the
\* matrix N rows of N components.
C28_LastWriteWins ==
    (pc = "held" /\ ~args.touched) =>
        LET kind == args.kind
            copy == args.locals.copy
        IN  /\ DOMAIN args.last \subseteq Positions(kind)
            /\ \A p \in Positions(kind) :
                At(kind, copy, p) = IF p \in DOMAIN args.last THEN Ok(args.last[p])
                                    ELSE At(kind, args.initial, p)
            /\ IF kind \in VecKinds THEN Cardinality(Components(copy)) = Size(kind)
               ELSE /\ DOMAIN copy.array = 0 .. Size(kind) - 1
                    /\ \A i \in DOMAIN copy.array :
                        Cardinality(Components(copy.array[i])) = Size(kind)

\* A Mat4 written three times, at one position twice with different values,
\* the last of them being the value read there.
C28_Witness ==
    /\ pc = "held" /\ ~args.touched
    /\ args.kind = "Mat4"
    /\ args.writes = 3
    /\ Cardinality(DOMAIN args.last) = 2
    /\ <<3, 3>> \in DOMAIN args.last
    /\ At("Mat4", args.locals.copy, <<3, 3>>) = Ok(Lit("signed", 1))
    /\ args.overwrote

====
